---- MODULE Spec2Model ----
(***************************************************************************)
(* Verification model of the validation and cross-referencing engine of    *)
(* the climate-disclosure-agent: the pipeline orchestrator                 *)
(* (cda/validation/pipeline.py), the scorer (cda/scoring/scorer.py), the   *)
(* multi-source news search manager (cda/validation/news_data_source.py),  *)
(* the rule validators (consistency, quantification, completeness, risk    *)
(* coverage), the registry adapters (cda/adapters) and the news            *)
(* cross-referencer (event extractor, cross validator, credibility scorer, *)
(* news consistency validator).                                            *)
(*                                                                         *)
(* Scores are floats in [0,1] in the source; here a score is an integer    *)
(* number of thousandths (0..1000) and None (an absent score) is -1.       *)
(* Weights are integer percents, so the overall (0..100 in the source) is  *)
(* an integer number of thousandths of a point: 90.0 is 90000.             *)
(***************************************************************************)
EXTENDS Integers, Sequences, FiniteSets, TLC

VARIABLES
    validators,      \* ValidationPipeline.validators: names of the registered validators
    adapters,        \* ValidationPipeline.adapters: names of the configured adapters
    cross_validate,  \* argument of run
    weights,         \* Scorer.weights
    pc,              \* position of the evaluation: run's phases, then aggregate
    idx,             \* position of the running loop of run (1-based)
    results,         \* run's local list `results`
    invoked,         \* the components whose validate / cross_validate has been called
    exc,             \* the exception that left run ("none" while there is none)
    aggregated,      \* the AggregatedResult of Scorer.aggregate
    sources,         \* NewsDataSourceManager.sources, in insertion order
    preferred_source,\* argument of search_news
    attempted,       \* the backends whose search_news has been called, in order
    search_pc,       \* position of NewsDataSourceManager.search_news
    fallback_idx,    \* position of the fallback loop over sources.items()
    articles,        \* what search_news returns
    extract,         \* the DisclosureExtract given to ConsistencyValidator.validate
    validation,      \* what the validator's validate / the adapter's cross_validate produced
    adapter,         \* the registry adapter: its name and its _data
    news_articles,   \* the articles given to EventExtractor.extract_events / found by the search
    llm,             \* what the language model answers, call by call
    llm_calls,       \* the articles submitted to the language model, in order
    events,          \* the EnvironmentalEvents extracted / given to the cross validator
    total_events,    \* argument of CredibilityScorer.score
    contradictions,  \* the Contradictions found / given to the scorer
    credibility_score, \* what CredibilityScorer.score returned (None before)
    news_pc,         \* position of the news component under evaluation
    news_i,          \* start of the current batch of extract_events (0-based)
    news_j,          \* position within the current batch (0-based)
    search_calls,    \* the search_news calls made by NewsConsistencyValidator.validate
    news_provider    \* NewsConsistencyValidator.news_provider

vars == <<validators, adapters, cross_validate, weights, pc, idx, results,
          invoked, exc, aggregated, sources, preferred_source, attempted,
          search_pc, fallback_idx, articles, extract, validation, adapter,
          news_articles, llm, llm_calls, events, total_events, contradictions,
          credibility_score, news_pc, news_i, news_j, search_calls, news_provider>>

pipelineVars == <<validators, adapters, cross_validate, weights, pc, idx,
                  results, invoked, exc, aggregated>>
searchVars == <<sources, preferred_source, attempted, search_pc,
                fallback_idx, articles>>
consistencyVars == <<extract, validation>>
adapterVars == <<adapter>>
newsVars == <<news_articles, llm, llm_calls, events, total_events, contradictions,
              credibility_score, news_pc, news_i, news_j, search_calls, news_provider>>

-----------------------------------------------------------------------------
(* Bounds of the model *)

MaxValidators == 2
MaxAdapters == 2
MaxArticles == 2
MaxTargets == 2
MaxEmissions == 2
MaxRisks == 1

-----------------------------------------------------------------------------
(* Values *)

None == 0 - 1

Max(a, b) == IF a >= b THEN a ELSE b

RECURSIVE SeqsUpTo(_, _)
SeqsUpTo(S, n) ==
    IF n = 0 THEN {<<>>}
    ELSE LET shorter == SeqsUpTo(S, n - 1)
         IN  shorter \cup {Append(s, x) : s \in {t \in shorter : Len(t) = n - 1}, x \in S}

RECURSIVE SumOver(_, _)
SumOver(f, S) ==
    IF S = {} THEN 0
    ELSE LET x == CHOOSE y \in S : TRUE
         IN  f[x] + SumOver(f, S \ {x})

(* cda/validation/base.py: ValidationFinding. The message is kept as the   *)
(* text's fixed part and the component it names.                           *)
Finding(validator, code, severity, about) ==
    [validator |-> validator, code |-> code, severity |-> severity, message |-> about]

(* cda/validation/base.py: ValidationResult declares `score: float`, so    *)
(* the constructor rejects score=None with a pydantic ValidationError.     *)
ValidationResultAccepts(score) == score # None

ValidationResult(validator_name, score, findings) ==
    [validator_name |-> validator_name, score |-> score, findings |-> findings]

-----------------------------------------------------------------------------
(* Components *)

(* pipeline.py default_pipeline: the validators list it builds *)
DefaultPipelineValidators ==
    <<"consistency", "quantification", "completeness", "risk_coverage", "news_consistency">>

(* validators of a pipeline built by the caller: the `name` attributes *)
CustomValidatorPool == {"consistency", "risk_coverage", "greenwashing_detector"}

AdapterPool == {"sbti", "cdp"}

(* f"adapter:{adapter.name}" *)
AdapterResultName(a) ==
    CASE a = "sbti" -> "adapter:sbti"
      [] a = "cdp" -> "adapter:cdp"
      [] OTHER -> "adapter:custom_climate_data"

(* str.startswith("adapter:") over the names of the model *)
StartsWithAdapter(name) ==
    name \in {"adapter:sbti", "adapter:cdp", "adapter:custom_climate_data"}

(* what a validator's validate can return: score, findings *)
ValidatorReturns(v) ==
    { ValidationResult(v, 1000, <<>>),
      ValidationResult(v, 0, <<Finding(v, "RULE-001", "critical", v)>>) }

(* what an adapter's cross_validate can return: the registry adapters'     *)
(* score is max(1.0 - 0.3 * critical findings, 0.0)                        *)
AdapterReturns(a) ==
    { ValidationResult(AdapterResultName(a), 1000, <<>>),
      ValidationResult(AdapterResultName(a), 700, <<Finding(a, "XV-001", "critical", a)>>) }

-----------------------------------------------------------------------------
(* Scorer (cda/scoring/scorer.py) *)

DEFAULT_WEIGHTS ==
    [d \in {"consistency", "quantification", "completeness", "risk_coverage"} |->
        CASE d = "consistency" -> 25
          [] d = "quantification" -> 30
          [] d = "completeness" -> 25
          [] d = "risk_coverage" -> 20]

(* GRADE_MAP, thresholds in thousandths of a point *)
GRADE_MAP == << <<90000, "A">>, <<80000, "B">>, <<70000, "C">>, <<60000, "D">>, <<0, "F">> >>

(* lines 61-66: the dict built by the loop over results; a later result    *)
(* with the same name overwrites an earlier one                            *)
RECURSIVE DimensionScores(_)
DimensionScores(rs) ==
    IF rs = <<>> THEN <<>>
    ELSE LET front == DimensionScores(SubSeq(rs, 1, Len(rs) - 1))
             r == rs[Len(rs)]
         IN  IF r.score # None /\ ~StartsWithAdapter(r.validator_name)
             THEN [n \in DOMAIN front \cup {r.validator_name} |->
                      IF n = r.validator_name THEN r.score ELSE front[n]]
             ELSE front

(* a variant of the sum that gives a dimension without a weight the       *)
(* weight 25                                                               *)
WeightedTotalOverDimensions(dims, w) ==
    SumOver([d \in DOMAIN dims \cup DOMAIN w |->
                (IF d \in DOMAIN dims THEN dims[d] ELSE 0) * (IF d \in DOMAIN w THEN w[d] ELSE 25)],
            DOMAIN dims \cup DOMAIN w)

(* lines 69-72: sum(dimension_scores.get(dim, 0) * weight ...) * 100 *)
WeightedTotal(dims, w) ==
    SumOver([d \in DOMAIN w |-> (IF d \in DOMAIN dims THEN dims[d] ELSE 0) * w[d]], DOMAIN w)

CriticalCountAnySeverity(r) == Len(r.findings)

(* line 77: len([f for f in r.findings if f.severity == 'critical']) *)
CriticalCount(r) ==
    Cardinality({i \in DOMAIN r.findings : r.findings[i].severity = "critical"})

(* lines 75-79 *)
CrossValidationPenalty(rs) ==
    LET adapter_results == {i \in DOMAIN rs : StartsWithAdapter(rs[i].validator_name)}
    IN  SumOver([i \in adapter_results |-> CriticalCount(rs[i]) * 5000], adapter_results)

RECURSIVE GradeFromStrict(_, _)
GradeFromStrict(overall, k) ==
    IF k > Len(GRADE_MAP) THEN "F"
    ELSE IF overall > GRADE_MAP[k][1] THEN GRADE_MAP[k][2]
    ELSE GradeFromStrict(overall, k + 1)

(* lines 83-87: first threshold, in descending order, that overall reaches *)
RECURSIVE GradeFrom(_, _)
GradeFrom(overall, k) ==
    IF k > Len(GRADE_MAP) THEN "F"
    ELSE IF overall >= GRADE_MAP[k][1] THEN GRADE_MAP[k][2]
    ELSE GradeFrom(overall, k + 1)

(* round(x, 1) of a value in thousandths, as a number of tenths *)
Round1(x) == (x + 50) \div 100

(* _generate_summary: min(dims, key=dims.get), the first minimal key in    *)
(* insertion order; "N/A" when there is no dimension                       *)
Weakest(rs) ==
    LET dims == DimensionScores(rs)
        firstAt(n) == CHOOSE i \in DOMAIN rs :
                         /\ rs[i].validator_name = n
                         /\ rs[i].score # None
                         /\ \A j \in 1..(i - 1) : rs[j].validator_name # n \/ rs[j].score = None
    IN  IF DOMAIN dims = {} THEN "N/A"
        ELSE CHOOSE n \in DOMAIN dims :
                \A m \in DOMAIN dims :
                    \/ dims[n] < dims[m]
                    \/ dims[n] = dims[m] /\ firstAt(n) <= firstAt(m)

(* Scorer.aggregate *)
Aggregate(rs, w) ==
    LET dimension_scores == DimensionScores(rs)
        penalty == CrossValidationPenalty(rs)
        overall == Max(WeightedTotal(dimension_scores, w) - penalty, 0)
    IN  [ overall |-> overall,
          overall_score |-> Round1(overall),
          grade |-> GradeFrom(overall, 1),
          dimension_scores |-> dimension_scores,
          adapters_used |-> LET adapter_results == SelectSeq(rs, LAMBDA r : StartsWithAdapter(r.validator_name))
                            IN  [i \in DOMAIN adapter_results |-> adapter_results[i].validator_name],
          penalty_applied |-> penalty,
          weakest |-> Weakest(rs) ]

NoAggregate == [overall |-> None]

(* line 44: self.weights = weights or self.DEFAULT_WEIGHTS.copy() *)
ScorerWeights(w) == IF DOMAIN w = {} THEN DEFAULT_WEIGHTS ELSE w

-----------------------------------------------------------------------------
(* ValidationPipeline.run (cda/validation/pipeline.py) followed by         *)
(* Scorer.aggregate                                                        *)

IdleSearch ==
    /\ sources = <<>>
    /\ preferred_source = "brave"
    /\ attempted = <<>>
    /\ search_pc = "idle"
    /\ fallback_idx = 1
    /\ articles = <<>>

IdleConsistency ==
    /\ extract = <<>>
    /\ validation = <<>>

IdleAdapter == adapter = <<>>

IdleNews ==
    /\ news_articles = <<>>
    /\ llm = <<>>
    /\ llm_calls = <<>>
    /\ events = <<>>
    /\ total_events = 0
    /\ contradictions = <<>>
    /\ credibility_score = None
    /\ news_pc = "idle"
    /\ news_i = 0
    /\ news_j = 0
    /\ search_calls = <<>>
    /\ news_provider = "brave"

PipelineConfigurations ==
    {DefaultPipelineValidators} \cup SeqsUpTo(CustomValidatorPool, MaxValidators)

Init ==
    /\ validators \in PipelineConfigurations
    /\ adapters \in SeqsUpTo(AdapterPool, MaxAdapters)
    /\ cross_validate \in BOOLEAN
    /\ weights = ScorerWeights(<<>>)
    /\ pc = "phase1"
    /\ idx = 1
    /\ results = <<>>
    /\ invoked = <<>>
    /\ exc = "none"
    /\ aggregated = NoAggregate
    /\ IdleSearch
    /\ IdleConsistency
    /\ IdleAdapter
    /\ IdleNews

(* one call of a component's validate / cross_validate and how it ended *)
Call(kind, position, name, outcome) ==
    [kind |-> kind, position |-> position, name |-> name, outcome |-> outcome]

ErrorResultWithoutFinding(v) ==
    ValidationResult(v, 0, <<>>)

(* lines 88-98: the synthetic result for a validator that raised *)
ErrorResult(v) ==
    ValidationResult(v, 0, <<Finding(v, "VALIDATOR-ERROR", "critical", v)>>)

(* lines 108-117: the result the handler of DataNotAvailableError builds *)
NoDataScore == None
NoDataFindings(a) == <<Finding(a, "ADAPTER-NO-DATA", "info", a)>>

(* lines 123-132: the result the handler of any other exception builds *)
AdapterErrorScore == None
AdapterErrorFindings(a) == <<Finding(a, "ADAPTER-ERROR", "warning", a)>>

(* lines 78-81: validator.validate(extract) returns *)
ValidatorReturn ==
    /\ pc = "phase1"
    /\ idx <= Len(validators)
    /\ \E r \in ValidatorReturns(validators[idx]) :
          results' = Append(results, r)
    /\ invoked' = Append(invoked, Call("validator", idx, validators[idx], "returned"))
    /\ idx' = idx + 1
    /\ UNCHANGED <<validators, adapters, cross_validate, weights, pc, exc, aggregated>>
    /\ UNCHANGED <<searchVars, consistencyVars, adapterVars, newsVars>>

(* lines 82-98: validator.validate(extract) raises *)
ValidatorRaise ==
    /\ pc = "phase1"
    /\ idx <= Len(validators)
    /\ results' = Append(results, ErrorResult(validators[idx]))
    /\ invoked' = Append(invoked, Call("validator", idx, validators[idx], "raised"))
    /\ idx' = idx + 1
    /\ UNCHANGED <<validators, adapters, cross_validate, weights, pc, exc, aggregated>>
    /\ UNCHANGED <<searchVars, consistencyVars, adapterVars, newsVars>>

(* line 101: if cross_validate and self.adapters *)
RunsPhase2 == cross_validate /\ adapters # <<>>

EnterPhase2 ==
    /\ pc = "phase1"
    /\ idx > Len(validators)
    /\ pc' = IF RunsPhase2 THEN "phase2" ELSE "returned"
    /\ idx' = 1
    /\ UNCHANGED <<validators, adapters, cross_validate, weights, results, invoked, exc, aggregated>>
    /\ UNCHANGED <<searchVars, consistencyVars, adapterVars, newsVars>>

(* lines 103-105: adapter.cross_validate(extract) returns *)
AdapterReturn ==
    /\ pc = "phase2"
    /\ idx <= Len(adapters)
    /\ \E r \in AdapterReturns(adapters[idx]) :
          results' = Append(results, r)
    /\ invoked' = Append(invoked, Call("adapter", idx, adapters[idx], "returned"))
    /\ idx' = idx + 1
    /\ UNCHANGED <<validators, adapters, cross_validate, weights, pc, exc, aggregated>>
    /\ UNCHANGED <<searchVars, consistencyVars, adapterVars, newsVars>>

(* An exception handler that appends ValidationResult(name, score, ...):   *)
(* when the constructor rejects the score, the ValidationError is raised   *)
(* inside the handler and leaves run.                                      *)
HandlerAppends(name, score, findings) ==
    IF ValidationResultAccepts(score)
    THEN /\ results' = Append(results, ValidationResult(name, score, findings))
         /\ idx' = idx + 1
         /\ UNCHANGED <<pc, exc>>
    ELSE /\ pc' = "raised"
         /\ exc' = "ValidationError"
         /\ UNCHANGED <<results, idx>>

(* lines 106-117: adapter.cross_validate raises DataNotAvailableError *)
AdapterNoData ==
    /\ pc = "phase2"
    /\ idx <= Len(adapters)
    /\ invoked' = Append(invoked, Call("adapter", idx, adapters[idx], "no_data"))
    /\ HandlerAppends(AdapterResultName(adapters[idx]), NoDataScore, NoDataFindings(adapters[idx]))
    /\ UNCHANGED <<validators, adapters, cross_validate, weights, aggregated>>
    /\ UNCHANGED <<searchVars, consistencyVars, adapterVars, newsVars>>

(* lines 118-132: adapter.cross_validate raises any other Exception *)
AdapterRaise ==
    /\ pc = "phase2"
    /\ idx <= Len(adapters)
    /\ invoked' = Append(invoked, Call("adapter", idx, adapters[idx], "raised"))
    /\ HandlerAppends(AdapterResultName(adapters[idx]), AdapterErrorScore, AdapterErrorFindings(adapters[idx]))
    /\ UNCHANGED <<validators, adapters, cross_validate, weights, aggregated>>
    /\ UNCHANGED <<searchVars, consistencyVars, adapterVars, newsVars>>

(* line 134: return results *)
Return ==
    /\ pc = "phase2"
    /\ idx > Len(adapters)
    /\ pc' = "returned"
    /\ UNCHANGED <<validators, adapters, cross_validate, weights, idx, results, invoked, exc, aggregated>>
    /\ UNCHANGED <<searchVars, consistencyVars, adapterVars, newsVars>>

(* scorer.aggregate(extract, validation_results) on the list run returned *)
AggregateResults ==
    /\ pc = "returned"
    /\ aggregated' = Aggregate(results, weights)
    /\ pc' = "aggregated"
    /\ UNCHANGED <<validators, adapters, cross_validate, weights, idx, results, invoked, exc>>
    /\ UNCHANGED <<searchVars, consistencyVars, adapterVars, newsVars>>

Next ==
    \/ ValidatorReturn
    \/ ValidatorRaise
    \/ EnterPhase2
    \/ AdapterReturn
    \/ AdapterNoData
    \/ AdapterRaise
    \/ Return
    \/ AggregateResults

Spec == Init /\ [][Next]_vars

FairSpec == Spec /\ WF_vars(Next)

-----------------------------------------------------------------------------
(* Properties of ValidationPipeline.run *)

ValidatorCalls == {k \in DOMAIN invoked : invoked[k].kind = "validator"}
AdapterCalls == {k \in DOMAIN invoked : invoked[k].kind = "adapter"}
Phase1Over == pc # "phase1" \/ idx > Len(validators)

(* C1: a validator whose validate raises does not abort run: at its        *)
(* position the list holds a result with the validator's name, score 0.0   *)
(* and exactly one finding (VALIDATOR-ERROR, critical, naming the          *)
(* validator), no exception leaves phase 1, and once phase 1 is over every *)
(* registered validator has been called, in registration order.            *)
C1_ValidatorErrorIsolated ==
    /\ \A k \in ValidatorCalls :
          invoked[k].outcome = "raised" =>
             /\ k <= Len(results)
             /\ results[k].validator_name = validators[k]
             /\ results[k].score = 0
             /\ Len(results[k].findings) = 1
             /\ results[k].findings[1].code = "VALIDATOR-ERROR"
             /\ results[k].findings[1].severity = "critical"
             /\ results[k].findings[1].message = validators[k]
    /\ pc = "phase1" => exc = "none"
    /\ Phase1Over =>
          \A p \in 1..Len(validators) :
             /\ p \in ValidatorCalls
             /\ invoked[p].position = p
             /\ invoked[p].name = validators[p]

C1_Witness ==
    /\ pc = "returned"
    /\ \E k \in ValidatorCalls : \E j \in ValidatorCalls :
          /\ k < j
          /\ invoked[k].outcome = "raised"
          /\ invoked[j].outcome = "returned"
          /\ results[j].score = 1000

(* C2: for every adapter without reference data (cross_validate raises     *)
(* DataNotAvailableError) the list gets a result named adapter:<name> with *)
(* score None and exactly one info finding ADAPTER-NO-DATA, run goes on    *)
(* with the remaining adapters, and aggregate applies no penalty for it.   *)
C2_NoDataResultAppended ==
    /\ \A k \in AdapterCalls :
          invoked[k].outcome = "no_data" =>
             /\ exc = "none"
             /\ k <= Len(results)
             /\ results[k].validator_name = AdapterResultName(invoked[k].name)
             /\ results[k].score = None
             /\ Len(results[k].findings) = 1
             /\ results[k].findings[1].code = "ADAPTER-NO-DATA"
             /\ results[k].findings[1].severity = "info"
             /\ CriticalCount(results[k]) * 5000 = 0
    /\ (pc \in {"returned", "aggregated"} /\ cross_validate) =>
          Cardinality(AdapterCalls) = Len(adapters)

(* C3: for every adapter whose cross_validate raises another exception the *)
(* list gets a result named adapter:<name> with score None and exactly one *)
(* warning finding ADAPTER-ERROR, the exception does not leave run, and    *)
(* the adapters registered after it are still called.                      *)
C3_AdapterErrorResultAppended ==
    /\ \A k \in AdapterCalls :
          invoked[k].outcome = "raised" =>
             /\ exc = "none"
             /\ k <= Len(results)
             /\ results[k].validator_name = AdapterResultName(invoked[k].name)
             /\ results[k].score = None
             /\ Len(results[k].findings) = 1
             /\ results[k].findings[1].code = "ADAPTER-ERROR"
             /\ results[k].findings[1].severity = "warning"
    /\ (pc \in {"returned", "aggregated"} /\ cross_validate) =>
          Cardinality(AdapterCalls) = Len(adapters)

(* C4: whatever the validators and adapters do (return, raise, no data),   *)
(* the evaluation never ends with an exception leaving run: it can only    *)
(* stop once aggregate has produced the AggregatedResult.                  *)
C4_EvaluationCompletes ==
    /\ exc = "none"
    /\ pc # "raised"
    /\ ~ENABLED Next => (pc = "aggregated" /\ aggregated # NoAggregate)

(* C5: whichever validators and adapters succeed or fail, run returns a    *)
(* list that holds exactly one result per registered validator, in         *)
(* registration order, followed when cross_validate is true by exactly one *)
(* result per configured adapter, in registration order; while run is      *)
(* working the list is a prefix of that list, so that no adapter result    *)
(* ever precedes a validator result.                                       *)
ExpectedNames ==
    validators \o (IF cross_validate THEN [k \in DOMAIN adapters |-> AdapterResultName(adapters[k])]
                   ELSE <<>>)

RunEnded == pc \in {"returned", "raised", "aggregated"}

C5_ResultsOrderStable ==
    /\ Len(results) <= Len(ExpectedNames)
    /\ \A k \in DOMAIN results : results[k].validator_name = ExpectedNames[k]
    /\ \A k \in DOMAIN results :
          /\ k <= Len(invoked)
          /\ invoked[k].kind = (IF k <= Len(validators) THEN "validator" ELSE "adapter")
          /\ invoked[k].position = (IF k <= Len(validators) THEN k ELSE k - Len(validators))
    /\ RunEnded =>
          /\ pc # "raised"
          /\ Len(results) = Len(ExpectedNames)
          /\ Len(invoked) = Len(results)

(* rule validators are the four scored dimensions and the caller's own     *)
(* validators; the news cross-referencer and the registry adapters are     *)
(* external cross-validation components                                    *)
ExternalComponent(call) == call.kind = "adapter" \/ call.name = "news_consistency"

(* C6: when cross_validate is false no external cross-validation component *)
(* (registry adapter or news cross-referencer) is called, whatever the     *)
(* pipeline, and the list holds only rule-validator results.               *)
C6_NoExternalCallWithoutFlag ==
    ~cross_validate =>
       /\ \A k \in DOMAIN invoked : ~ExternalComponent(invoked[k])
       /\ \A k \in DOMAIN results :
             /\ ~StartsWithAdapter(results[k].validator_name)
             /\ results[k].validator_name # "news_consistency"

-----------------------------------------------------------------------------
(* NewsDataSourceManager (cda/validation/news_data_source.py)              *)

IdlePipeline ==
    /\ validators = <<>>
    /\ adapters = <<>>
    /\ cross_validate = FALSE
    /\ weights = DEFAULT_WEIGHTS
    /\ pc = "idle"
    /\ idx = 1
    /\ results = <<>>
    /\ invoked = <<>>
    /\ exc = "none"
    /\ aggregated = NoAggregate

(* the providers __init__ knows, in the order it inserts them *)
Providers == <<"brave", "google", "bing">>

(* lines 375-383: self.sources, a dict in insertion order *)
RECURSIVE SourcesFrom(_, _)
SourcesFrom(api_keys, k) ==
    IF k > Len(Providers) THEN <<>>
    ELSE (IF Providers[k] \in api_keys THEN <<Providers[k]>> ELSE <<>>)
            \o SourcesFrom(api_keys, k + 1)

(* a variant of line 409 that takes every preferred source as configured *)
ConfiguredAlways(name) == TRUE

(* line 409: preferred_source in self.sources *)
Configured(name) == \E k \in DOMAIN sources : sources[k] = name

(* a backend's non-empty answer: its articles *)
ArticlesOf(name, n) == [k \in 1..n |-> [source |-> name, item |-> k]]

Attempt(name, outcome) == [name |-> name, outcome |-> outcome]

SearchInit ==
    /\ IdlePipeline
    /\ IdleConsistency
    /\ IdleAdapter
    /\ IdleNews
    /\ \E api_keys \in SUBSET {"brave", "google", "bing", "newsapi"} :
          sources = SourcesFrom(api_keys, 1)
    /\ preferred_source \in {"brave", "google", "bing", "newsapi"}
    /\ attempted = <<>>
    /\ search_pc = "preferred"
    /\ fallback_idx = 1
    /\ articles = <<>>

(* line 409 is false: the preferred source has no API key *)
PreferredNotConfigured ==
    /\ search_pc = "preferred"
    /\ ~Configured(preferred_source)
    /\ search_pc' = "fallback"
    /\ UNCHANGED <<sources, preferred_source, attempted, fallback_idx, articles>>
    /\ UNCHANGED <<pipelineVars, consistencyVars, adapterVars, newsVars>>

(* lines 411-415: the preferred source answers with articles *)
PreferredFinds ==
    /\ search_pc = "preferred"
    /\ Configured(preferred_source)
    /\ \E n \in 1..MaxArticles : articles' = ArticlesOf(preferred_source, n)
    /\ attempted' = Append(attempted, Attempt(preferred_source, "articles"))
    /\ search_pc' = "done"
    /\ UNCHANGED <<sources, preferred_source, fallback_idx>>
    /\ UNCHANGED <<pipelineVars, consistencyVars, adapterVars, newsVars>>

(* line 414 is false: the preferred source answers with an empty list *)
PreferredEmpty ==
    /\ search_pc = "preferred"
    /\ Configured(preferred_source)
    /\ attempted' = Append(attempted, Attempt(preferred_source, "empty"))
    /\ search_pc' = "fallback"
    /\ UNCHANGED <<sources, preferred_source, fallback_idx, articles>>
    /\ UNCHANGED <<pipelineVars, consistencyVars, adapterVars, newsVars>>

(* lines 416-417: the preferred source raises, the handler only prints *)
PreferredRaises ==
    /\ search_pc = "preferred"
    /\ Configured(preferred_source)
    /\ attempted' = Append(attempted, Attempt(preferred_source, "raised"))
    /\ search_pc' = "fallback"
    /\ UNCHANGED <<sources, preferred_source, fallback_idx, articles>>
    /\ UNCHANGED <<pipelineVars, consistencyVars, adapterVars, newsVars>>

FallbackNeverSkips(name) == FALSE

(* line 421: if source_name != preferred_source *)
SkippedInFallback(name) == name = preferred_source

(* line 421 is false: the loop passes over the preferred source *)
FallbackSkip ==
    /\ search_pc = "fallback"
    /\ fallback_idx <= Len(sources)
    /\ SkippedInFallback(sources[fallback_idx])
    /\ fallback_idx' = fallback_idx + 1
    /\ UNCHANGED <<sources, preferred_source, attempted, search_pc, articles>>
    /\ UNCHANGED <<pipelineVars, consistencyVars, adapterVars, newsVars>>

(* lines 422-427: a fallback source answers with articles *)
FallbackFinds ==
    /\ search_pc = "fallback"
    /\ fallback_idx <= Len(sources)
    /\ ~SkippedInFallback(sources[fallback_idx])
    /\ \E n \in 1..MaxArticles : articles' = ArticlesOf(sources[fallback_idx], n)
    /\ attempted' = Append(attempted, Attempt(sources[fallback_idx], "articles"))
    /\ search_pc' = "done"
    /\ UNCHANGED <<sources, preferred_source, fallback_idx>>
    /\ UNCHANGED <<pipelineVars, consistencyVars, adapterVars, newsVars>>

(* line 426 is false: a fallback source answers with an empty list *)
FallbackEmpty ==
    /\ search_pc = "fallback"
    /\ fallback_idx <= Len(sources)
    /\ ~SkippedInFallback(sources[fallback_idx])
    /\ attempted' = Append(attempted, Attempt(sources[fallback_idx], "empty"))
    /\ fallback_idx' = fallback_idx + 1
    /\ UNCHANGED <<sources, preferred_source, search_pc, articles>>
    /\ UNCHANGED <<pipelineVars, consistencyVars, adapterVars, newsVars>>

(* lines 428-429: a fallback source raises, the handler only prints *)
FallbackRaises ==
    /\ search_pc = "fallback"
    /\ fallback_idx <= Len(sources)
    /\ ~SkippedInFallback(sources[fallback_idx])
    /\ attempted' = Append(attempted, Attempt(sources[fallback_idx], "raised"))
    /\ fallback_idx' = fallback_idx + 1
    /\ search_pc' = "fallback"
    /\ UNCHANGED <<sources, preferred_source, articles>>
    /\ UNCHANGED <<pipelineVars, consistencyVars, adapterVars, newsVars>>

(* lines 431-433: every source failed, return [] *)
AllSourcesFailed ==
    /\ search_pc = "fallback"
    /\ fallback_idx > Len(sources)
    /\ articles' = <<>>
    /\ search_pc' = "done"
    /\ UNCHANGED <<sources, preferred_source, attempted, fallback_idx>>
    /\ UNCHANGED <<pipelineVars, consistencyVars, adapterVars, newsVars>>

SearchNext ==
    \/ PreferredNotConfigured
    \/ PreferredFinds
    \/ PreferredEmpty
    \/ PreferredRaises
    \/ FallbackSkip
    \/ FallbackFinds
    \/ FallbackEmpty
    \/ FallbackRaises
    \/ AllSourcesFailed

SearchSpec == SearchInit /\ [][SearchNext]_vars

-----------------------------------------------------------------------------
(* Properties of NewsDataSourceManager.search_news *)

AttemptedNames == {attempted[k].name : k \in DOMAIN attempted}

(* C7: in one search_news call no backend is attempted more than once, the *)
(* call never ends by raising, and when the preferred backend raised or    *)
(* answered nothing, an empty list is returned only after every other      *)
(* configured backend has been attempted.                                  *)
C7_FallbackExhaustive ==
    /\ \A j \in DOMAIN attempted : \A k \in DOMAIN attempted :
          attempted[j].name = attempted[k].name => j = k
    /\ search_pc \in {"idle", "preferred", "fallback", "done"}
    /\ (search_pc = "done" /\ articles = <<>>) =>
          /\ \A k \in DOMAIN sources : sources[k] \in AttemptedNames
          /\ \A k \in DOMAIN attempted : attempted[k].outcome \in {"empty", "raised"}

C7_Witness ==
    /\ search_pc = "done"
    /\ articles = <<>>
    /\ Len(sources) = 3
    /\ Len(attempted) = 3
    /\ attempted[1].name = preferred_source
    /\ attempted[1].outcome = "raised"
    /\ \E k \in DOMAIN attempted : attempted[k].outcome = "empty"

(* the order in which search_news is to go through the backends: the        *)
(* preferred one when it has a key, then the others as registered          *)
SearchOrder ==
    LET preferred == SelectSeq(sources, LAMBDA n : n = preferred_source)
        others == SelectSeq(sources, LAMBDA n : n # preferred_source)
    IN  preferred \o others

(* C23: search_news attempts the preferred backend first when it is        *)
(* configured, then the other configured backends in registration order    *)
(* (all configured backends in registration order when the preferred one   *)
(* is not configured); the first backend that answers with articles ends   *)
(* the call, nothing is attempted after it, and the call returns exactly   *)
(* that backend's articles.                                                *)
C23_PreferredThenRegistrationOrder ==
    /\ Len(attempted) <= Len(SearchOrder)
    /\ \A k \in DOMAIN attempted : attempted[k].name = SearchOrder[k]
    /\ \A k \in DOMAIN attempted : attempted[k].outcome = "articles" => k = Len(attempted)
    /\ search_pc = "done" =>
          IF attempted # <<>> /\ attempted[Len(attempted)].outcome = "articles"
          THEN /\ articles # <<>>
               /\ articles = ArticlesOf(attempted[Len(attempted)].name, Len(articles))
          ELSE /\ articles = <<>>
               /\ Len(attempted) = Len(SearchOrder)
    /\ search_pc # "done" => articles = <<>>

C23_Witness ==
    /\ search_pc = "done"
    /\ sources = <<"brave", "google", "bing">>
    /\ preferred_source = "google"
    /\ Len(attempted) = 3
    /\ attempted[1] = Attempt("google", "raised")
    /\ attempted[2] = Attempt("brave", "empty")
    /\ attempted[3] = Attempt("bing", "articles")
    /\ articles = ArticlesOf("bing", 2)

-----------------------------------------------------------------------------
(* Scorer.aggregate on its own: the results and the weights are inputs     *)

(* the weights argument of Scorer(...): none, or the caller's map *)
WeightArguments ==
    { <<>>,
      [d \in {"consistency"} |-> 100],
      [d \in {"consistency", "news_consistency"} |-> 60] }

(* zero or one result named `name`, its score and findings drawn from the  *)
(* given sets                                                              *)
Slot(name, scores, findings) ==
    {<<>>} \cup {<<ValidationResult(name, sc, f)>> : sc \in scores, f \in findings}

GridScores == {None, 899, 900, 1000}

ScorerInputs ==
    { c \o q \o m \o r \o n \o a \o b :
        c \in Slot("consistency", GridScores \cup {0},
                   {<<>>, <<Finding("consistency", "CONSIST-001", "critical", "rule")>>}),
        q \in Slot("quantification", GridScores, {<<>>}),
        m \in Slot("completeness", GridScores, {<<>>}),
        r \in Slot("risk_coverage", GridScores, {<<>>}),
        n \in Slot("news_consistency", {0, 500},
                   {<<>>, <<Finding("news_consistency", "NEWS-OMISSION", "critical", "news")>>}),
        a \in { <<>>,
                <<ValidationResult("adapter:sbti", None, NoDataFindings("sbti"))>>,
                <<ValidationResult("adapter:sbti", 700, <<Finding("sbti", "SBTI-001", "critical", "sbti")>>)>>,
                <<ValidationResult("adapter:sbti", 400, <<Finding("sbti", "SBTI-001", "critical", "sbti"),
                                                          Finding("sbti", "SBTI-002", "critical", "sbti")>>)>> },
        b \in { <<>>,
                <<ValidationResult("adapter:cdp", 1000, <<Finding("cdp", "CDP-001", "warning", "cdp")>>)>>,
                <<ValidationResult("adapter:cdp", 700, <<Finding("cdp", "CDP-009", "critical", "cdp")>>)>> } }

ScorerInit ==
    /\ IdleSearch
    /\ IdleConsistency
    /\ IdleAdapter
    /\ IdleNews
    /\ validators = <<>>
    /\ adapters = <<>>
    /\ cross_validate = TRUE
    /\ \E w \in WeightArguments : weights = ScorerWeights(w)
    /\ pc = "returned"
    /\ idx = 1
    /\ results \in ScorerInputs
    /\ invoked = <<>>
    /\ exc = "none"
    /\ aggregated = NoAggregate

ScorerNext == AggregateResults

ScorerSpec == ScorerInit /\ [][ScorerNext]_vars

-----------------------------------------------------------------------------
(* Properties of Scorer.aggregate *)

(* the results that count as dimensions: non-null score, no adapter prefix *)
Dimensions == {i \in DOMAIN results :
                 results[i].score # None /\ ~StartsWithAdapter(results[i].validator_name)}

(* score(dim): the score of the (last) dimension result named dim, 0 when  *)
(* there is none                                                           *)
ScoreOfDim(dim) ==
    LET named == {i \in Dimensions : results[i].validator_name = dim}
    IN  IF named = {} THEN 0
        ELSE results[CHOOSE i \in named : \A j \in named : j <= i].score

(* critical findings across all results whose name starts with adapter: *)
AdapterCriticals ==
    Cardinality({<<i, j>> \in (DOMAIN results) \X (1..2) :
                    /\ StartsWithAdapter(results[i].validator_name)
                    /\ j \in DOMAIN results[i].findings
                    /\ results[i].findings[j].severity = "critical"})

ExpectedOverall ==
    Max(SumOver([d \in DOMAIN weights |-> weights[d] * ScoreOfDim(d)], DOMAIN weights)
           - 5000 * AdapterCriticals, 0)

(* C8: overall = max(100 * sum over the weight map of weight * score(dim)  *)
(* - 5 * critical findings of adapter results, 0); dimension_scores holds  *)
(* exactly the non-null non-adapter results; with the default weights and  *)
(* scores in [0,1] the overall lies in [0,100].                            *)
C8_OverallFormula ==
    pc = "aggregated" =>
       /\ aggregated.overall = ExpectedOverall
       /\ aggregated.penalty_applied = 5000 * AdapterCriticals
       /\ DOMAIN aggregated.dimension_scores = {results[i].validator_name : i \in Dimensions}
       /\ \A d \in DOMAIN aggregated.dimension_scores :
             aggregated.dimension_scores[d] = ScoreOfDim(d)
       /\ weights = DEFAULT_WEIGHTS =>
             /\ aggregated.overall =
                   Max(25 * ScoreOfDim("consistency") + 30 * ScoreOfDim("quantification")
                       + 25 * ScoreOfDim("completeness") + 20 * ScoreOfDim("risk_coverage")
                       - 5000 * AdapterCriticals, 0)
             /\ aggregated.overall >= 0
             /\ aggregated.overall <= 100000

C8_Witness ==
    /\ pc = "aggregated"
    /\ weights = DEFAULT_WEIGHTS
    /\ \A d \in DOMAIN weights : d \in DOMAIN aggregated.dimension_scores
    /\ \E i \in DOMAIN results : results[i].validator_name = "adapter:cdp" /\ results[i].score = 1000
    /\ \E i \in DOMAIN results : results[i].validator_name = "adapter:sbti" /\ CriticalCount(results[i]) = 2
    /\ aggregated.penalty_applied = 10000
    /\ aggregated.overall = 80000

(* the grade the thresholds give: A >= 90, B >= 80, C >= 70, D >= 60, F *)
GradeOf(overall) ==
    CASE overall >= 90000 -> "A"
      [] overall < 90000 /\ overall >= 80000 -> "B"
      [] overall < 80000 /\ overall >= 70000 -> "C"
      [] overall < 70000 /\ overall >= 60000 -> "D"
      [] overall < 60000 -> "F"

(* C9: the grade is the first threshold, in descending order, that the     *)
(* final overall (after penalty and floor) reaches: 90.0 gives A, 89.9     *)
(* gives B, 0 gives F, and every overall gets exactly one grade.           *)
C9_GradeThresholds ==
    pc = "aggregated" =>
       /\ aggregated.grade = GradeOf(ExpectedOverall)
       /\ ExpectedOverall = 90000 => aggregated.grade = "A"
       /\ ExpectedOverall = 89900 => aggregated.grade = "B"
       /\ ExpectedOverall = 0 => aggregated.grade = "F"

C9_Witness ==
    /\ pc = "aggregated"
    /\ weights = DEFAULT_WEIGHTS
    /\ aggregated.penalty_applied = 0
    /\ aggregated.overall = 89900
    /\ aggregated.overall_score = 899
    /\ aggregated.grade = "B"

-----------------------------------------------------------------------------
(* ConsistencyValidator (cda/validation/consistency.py)                    *)

(* The target descriptions of the model and str.lower() on them *)
Lower(text) ==
    CASE text = "Net Zero by 2050" -> "net zero by 2050"
      [] text = "Cut Scope 1 emissions by 50%" -> "cut scope 1 emissions by 50%"
      [] text = "Opportunity in cooling products" -> "opportunity in cooling products"
      [] text = "Flooding of coastal sites" -> "flooding of coastal sites"
      [] text = "Carbon pricing" -> "carbon pricing"
      [] text = "Demand shift" -> "demand shift"
      [] text = "CDP" -> "cdp"
      [] text = "No significant environmental risks" -> "no significant environmental risks"
      [] text = "EPA Fine for the Ohio plant" -> "epa fine for the ohio plant"
      [] text = "EPA fine for the Ohio plant" -> "epa fine for the ohio plant"
      [] text = "Refinery upgrade program" -> "refinery upgrade program"
      [] text = "Company fined for pollution" -> "company fined for pollution"
      [] text = "Carbon neutral operations powered by clean energy"
            -> "carbon neutral operations powered by clean energy"
      [] text = "Set aside $5 million and $2 million for remediation"
            -> "set aside $5 million and $2 million for remediation"
      [] text = "Fine" -> "fine"
      [] text = "EPA" -> "epa"
      [] text = "TCFD" -> "tcfd"
      [] OTHER -> text

(* "net zero" in text, for the lower-cased descriptions of the model *)
ContainsNetZero(text) == text = "net zero by 2050"

(* schema.py TargetData; interim_targets is kept as the number of its entries *)
TargetData(description, target_year, base_year, interim_targets) ==
    [description |-> description, target_year |-> target_year,
     base_year |-> base_year, interim_targets |-> interim_targets]

TargetChoices ==
    { TargetData("Cut Scope 1 emissions by 50%", 2030, 2020, 0),
      TargetData("Net Zero by 2050", 2050, None, 0),
      TargetData("net zero by 2050", 2050, 2020, 1),
      TargetData("Cut Scope 1 emissions by 50%", 2020, 2030, 0),
      TargetData("Cut Scope 1 emissions by 50%", 2030, 2030, 0) }

(* schema.py EmissionData: scope and value (None when not disclosed) *)
EmissionChoices ==
    [scope : {"scope_1", "scope_3"}, value : {40, 60}] \cup {[scope |-> "scope_3", value |-> None]}

(* schema.py RiskItem: the category *)
RiskChoices == [category : {"supply_chain", "policy_legal"}]

(* schema.py GovernanceData: Optional[bool] fields *)
GovernanceChoices ==
    { [board_oversight |-> "None", executive_incentive_linked |-> "None"],
      [board_oversight |-> "True", executive_incentive_linked |-> "None"],
      [board_oversight |-> "True", executive_incentive_linked |-> "False"] }

(* source_references: the keywords that occur in the joined, lower-cased text *)
ReferenceChoices == { {}, {"capex"}, {"funding", "initiative"} }

(* schema.py DisclosureExtract, the fields the consistency rules read *)
DisclosureExtracts ==
    [class : {"DisclosureExtract"},
     targets : SeqsUpTo(TargetChoices, MaxTargets),
     emissions : SeqsUpTo(EmissionChoices, MaxEmissions),
     risks : SeqsUpTo(RiskChoices, MaxRisks),
     governance : GovernanceChoices,
     source_references : ReferenceChoices]

(* a Python list as an argument *)
List(items) == [class |-> "list", items |-> items]

(* truthiness of an Optional number: None and 0 are false *)
Truthy(x) == x # None /\ x # 0

(* lines 11-22: _scope3_material. The running scope3_emissions is assigned *)
(* (not added) for each Scope-3 entry with a value.                        *)
RECURSIVE Scope3Totals(_, _, _, _)
Scope3Totals(emissions, k, total_emissions, scope3_emissions) ==
    IF k > Len(emissions) THEN <<total_emissions, scope3_emissions>>
    ELSE IF Truthy(emissions[k].value)
         THEN Scope3Totals(emissions, k + 1, total_emissions + emissions[k].value,
                           IF emissions[k].scope = "scope_3" THEN emissions[k].value
                           ELSE scope3_emissions)
         ELSE Scope3Totals(emissions, k + 1, total_emissions, scope3_emissions)

(* a variant of _scope3_material with the threshold at 60% *)
Scope3MaterialAbove60(e) ==
    LET t == Scope3Totals(e.emissions, 1, 0, 0)
    IN  t[2] > 0 /\ t[1] > 0 /\ 10 * t[2] > 6 * t[1]

Scope3Material(e) ==
    LET t == Scope3Totals(e.emissions, 1, 0, 0)
    IN  t[2] > 0 /\ t[1] > 0 /\ 10 * t[2] > 4 * t[1]

(* lines 25-29 *)
MentionsClimateInvestment(e) ==
    e.source_references \cap {"investment", "investing", "capital expenditure", "capex", "funding"} # {}

(* lines 32-36 *)
HasSpecificProjects(e) ==
    e.source_references \cap {"project", "initiative", "technology", "program", "solution"} # {}

(* lines 39-50: _check_timeline_monotonicity(targets); len() of an object  *)
(* that is not a list (a pydantic model has no __len__) raises TypeError   *)
CheckTimelineMonotonicity(targets) ==
    IF targets.class # "list" THEN "TypeError"
    ELSE IF Len(targets.items) < 2 THEN "True"
    ELSE IF \E k \in DOMAIN targets.items :
               /\ Truthy(targets.items[k].target_year)
               /\ Truthy(targets.items[k].base_year)
               /\ targets.items[k].target_year <= targets.items[k].base_year
         THEN "False"
         ELSE "True"

Bool(b) == IF b THEN "True" ELSE "False"

(* lines 67-110: RULES, in order *)
RULES ==
    << [code |-> "CONSIST-001", name |-> "net_zero_pathway", severity |-> "critical"],
       [code |-> "CONSIST-002", name |-> "scope3_materiality", severity |-> "warning"],
       [code |-> "CONSIST-003", name |-> "target_timeline_logic", severity |-> "warning"],
       [code |-> "CONSIST-004", name |-> "investment_specificity", severity |-> "info"],
       [code |-> "CONSIST-005", name |-> "governance_action_gap", severity |-> "warning"] >>

(* rule["condition"](extract) *)
RuleCondition(k, e) ==
    CASE k = 1 -> \E i \in DOMAIN e.targets : ContainsNetZero(Lower(e.targets[i].description))
      [] k = 2 -> Scope3Material(e)
      [] k = 3 -> Len(e.targets) > 1
      [] k = 4 -> MentionsClimateInvestment(e)
      [] k = 5 -> e.governance.board_oversight = "True"

(* rule["check"](extract): "True", "False" or the exception raised; rule 3 *)
(* hands the extract itself to _check_timeline_monotonicity (line 90)      *)
RuleCheck(k, e) ==
    CASE k = 1 -> Bool(\E i \in DOMAIN e.targets :
                          /\ ContainsNetZero(Lower(e.targets[i].description))
                          /\ e.targets[i].interim_targets > 0)
      [] k = 2 -> Bool(\E i \in DOMAIN e.risks :
                          e.risks[i].category \in {"supply_chain", "value_chain", "upstream", "downstream"})
      [] k = 3 -> CheckTimelineMonotonicity(e)
      [] k = 4 -> Bool(HasSpecificProjects(e))
      [] k = 5 -> Bool(e.governance.executive_incentive_linked # "None")

(* lines 122-136: the loop over RULES from rule k on *)
RECURSIVE EvaluateRules(_, _, _)
EvaluateRules(e, k, acc) ==
    IF k > Len(RULES) THEN acc
    ELSE IF ~RuleCondition(k, e) THEN EvaluateRules(e, k + 1, acc)
    ELSE LET check == RuleCheck(k, e)
             applied == [acc EXCEPT !.applicable = @ + 1]
         IN  IF check = "TypeError" THEN [applied EXCEPT !.raised = "TypeError"]
             ELSE IF check = "True"
                  THEN EvaluateRules(e, k + 1, [applied EXCEPT !.passed = @ + 1])
                  ELSE EvaluateRules(e, k + 1,
                          [applied EXCEPT !.findings =
                              Append(@, Finding("consistency", RULES[k].code, RULES[k].severity, RULES[k].name))])

(* lines 112-145: ConsistencyValidator.validate; the score passed /        *)
(* applicable is kept as the fraction num / den, 1.0 being 1 / 1           *)
ConsistencyValidate(e) ==
    LET out == EvaluateRules(e, 1, [applicable |-> 0, passed |-> 0, findings |-> <<>>, raised |-> "none"])
    IN  IF out.raised # "none"
        THEN [status |-> "raised", exception |-> out.raised]
        ELSE [status |-> "returned",
              validator_name |-> "consistency",
              score |-> IF out.applicable > 0
                        THEN [num |-> out.passed, den |-> out.applicable]
                        ELSE [num |-> 1, den |-> 1],
              findings |-> out.findings,
              metadata |-> [rules_applicable |-> out.applicable, rules_passed |-> out.passed]]

NotValidated == [status |-> "none"]

ConsistencyInit ==
    /\ IdlePipeline
    /\ IdleSearch
    /\ IdleAdapter
    /\ IdleNews
    /\ extract \in DisclosureExtracts
    /\ validation = NotValidated

(* validate(extract) returns a ValidationResult *)
ValidateReturns ==
    /\ validation = NotValidated
    /\ ConsistencyValidate(extract).status = "returned"
    /\ validation' = ConsistencyValidate(extract)
    /\ UNCHANGED <<extract, pipelineVars, searchVars, adapterVars, newsVars>>

(* validate(extract) raises *)
ValidateRaises ==
    /\ validation = NotValidated
    /\ ConsistencyValidate(extract).status = "raised"
    /\ validation' = ConsistencyValidate(extract)
    /\ UNCHANGED <<extract, pipelineVars, searchVars, adapterVars, newsVars>>

ConsistencyNext ==
    \/ ValidateReturns
    \/ ValidateRaises

ConsistencySpec == ConsistencyInit /\ [][ConsistencyNext]_vars

-----------------------------------------------------------------------------
(* Properties of ConsistencyValidator.validate *)

(* the rules whose condition holds, and those among them whose check holds *)
ApplicableRules == {k \in DOMAIN RULES : RuleCondition(k, extract)}
TimelineHolds ==
    \A i \in DOMAIN extract.targets :
       (Truthy(extract.targets[i].target_year) /\ Truthy(extract.targets[i].base_year))
          => extract.targets[i].target_year > extract.targets[i].base_year
CheckHolds(k) == IF k = 3 THEN TimelineHolds ELSE RuleCheck(k, extract) = "True"
PassedRules == {k \in ApplicableRules : CheckHolds(k)}
FailedRules == ApplicableRules \ PassedRules

(* C10: for every record validate returns score = passed / applicable,     *)
(* one finding (the rule's code and severity) per applicable rule whose    *)
(* check fails, in rule order, none for the other rules, and score 1.0     *)
(* with no findings when no rule applies.                                  *)
C10_ScoreIsPassedOverApplicable ==
    validation # NotValidated =>
       /\ validation.status = "returned"
       /\ validation.score.num * Max(Cardinality(ApplicableRules), 1) =
             validation.score.den * (IF ApplicableRules = {} THEN 1 ELSE Cardinality(PassedRules))
       /\ Len(validation.findings) = Cardinality(FailedRules)
       /\ \A j \in DOMAIN validation.findings :
             \E k \in FailedRules :
                /\ validation.findings[j].code = RULES[k].code
                /\ validation.findings[j].severity = RULES[k].severity
                /\ Cardinality({m \in FailedRules : m < k}) = j - 1
       /\ ApplicableRules = {} =>
             (validation.score.num = validation.score.den /\ validation.findings = <<>>)

(* the sum of the disclosed values of the emission entries of the given scopes *)
DisclosedTotal(scopes) ==
    LET counted == {i \in DOMAIN extract.emissions :
                      extract.emissions[i].scope \in scopes /\ Truthy(extract.emissions[i].value)}
    IN  SumOver([i \in counted |-> extract.emissions[i].value], counted)

AllScopes == {"scope_1", "scope_2", "scope_3"}

(* the end-to-end scenario: one "net zero by 2050" target without interim  *)
(* milestones, one emission entry per scope with Scope 3 at 60% of the     *)
(* total, no supply-chain risk entry, every other field at its default     *)
NetZeroScenario ==
    /\ Len(extract.targets) = 1
    /\ Lower(extract.targets[1].description) = "net zero by 2050"
    /\ extract.targets[1].interim_targets = 0
    /\ \A i \in DOMAIN extract.emissions : \A j \in DOMAIN extract.emissions :
          extract.emissions[i].scope = extract.emissions[j].scope => i = j
    /\ DisclosedTotal(AllScopes) > 0
    /\ 10 * DisclosedTotal({"scope_3"}) = 6 * DisclosedTotal(AllScopes)
    /\ \A i \in DOMAIN extract.risks : extract.risks[i].category # "supply_chain"
    /\ extract.governance = [board_oversight |-> "None", executive_incentive_linked |-> "None"]
    /\ extract.source_references = {}

HasFinding(code) ==
    \E j \in DOMAIN validation.findings : validation.findings[j].code = code

NoSupplyChainRisk ==
    \A i \in DOMAIN extract.risks :
       extract.risks[i].category \notin {"supply_chain", "value_chain", "upstream", "downstream"}

(* C24: whenever validate returns, with any number of emission entries per *)
(* scope: if the sum of the Scope-3 values exceeds 40% of the sum of all   *)
(* disclosed values and no risk entry has a supply-chain category,         *)
(* CONSIST-002 is among the findings; if the Scope-3 share is at most 40%, *)
(* CONSIST-002 is not.                                                     *)
C24_Scope3ShareRule ==
    (validation # NotValidated /\ validation.status = "returned") =>
       /\ (10 * DisclosedTotal({"scope_3"}) > 4 * DisclosedTotal(AllScopes) /\ NoSupplyChainRisk)
             => HasFinding("CONSIST-002")
       /\ 10 * DisclosedTotal({"scope_3"}) <= 4 * DisclosedTotal(AllScopes)
             => ~HasFinding("CONSIST-002")

(* C25: for every record that has targets validate returns a result, and   *)
(* CONSIST-003 is among its findings exactly when some target has both     *)
(* years set with target_year not exceeding base_year.                     *)
C25_TimelineRuleReturns ==
    (validation # NotValidated /\ extract.targets # <<>>) =>
       /\ validation.status = "returned"
       /\ HasFinding("CONSIST-003") <=> ~TimelineHolds

-----------------------------------------------------------------------------
(* The rule validators that score one record on its own:                   *)
(* QuantificationValidator, CompletenessValidator, RiskCoverageValidator   *)

MaxDisclosedEmissions == 3
MaxDisclosedTargets == 1
MaxDisclosedRisks == 2

(* any(P(x) for x in items) *)
AnyOf(items, P(_)) == \E i \in DOMAIN items : P(items[i])

(* schema.py EmissionData, the fields the validators read; an absent       *)
(* Optional number is None, an absent Optional string is "None"            *)
EmissionData(scope, value, baseline_year, intensity_value, methodology, assurance_level) ==
    [scope |-> scope, value |-> value, baseline_year |-> baseline_year,
     intensity_value |-> intensity_value, methodology |-> methodology,
     assurance_level |-> assurance_level]

DisclosedEmissionChoices ==
    { EmissionData(s, 100, None, None, "None", "None") : s \in {"scope_1", "scope_2", "scope_3"} }
    \cup { EmissionData("scope_2", 100, 2019, 12, "GHG Protocol", "limited") }
    \cup { EmissionData("scope_1", None, 2019, None, "None", "None") }

(* schema.py TargetData, the fields the quantification checks read;        *)
(* interim_targets and scopes_covered are kept as the number of entries    *)
QuantifiedTarget(reduction_pct, target_year, base_year, interim_targets, scopes_covered) ==
    [reduction_pct |-> reduction_pct, target_year |-> target_year, base_year |-> base_year,
     interim_targets |-> interim_targets, scopes_covered |-> scopes_covered]

DisclosedTargetChoices ==
    { QuantifiedTarget(None, None, None, 0, 0),
      QuantifiedTarget(50, 2030, None, 0, 0),
      QuantifiedTarget(50, 2030, 2020, 1, 2) }

(* schema.py RiskItem *)
RiskItem(risk_type, category, description, financial_impact_value, time_horizon, likelihood, mitigation_strategy) ==
    [risk_type |-> risk_type, category |-> category, description |-> description,
     financial_impact_value |-> financial_impact_value, time_horizon |-> time_horizon,
     likelihood |-> likelihood, mitigation_strategy |-> mitigation_strategy]

DisclosedRiskChoices ==
    { RiskItem("physical", "acute", "Flooding of coastal sites", None, "None", "None", "None"),
      RiskItem("transition", "policy_legal", "Carbon pricing", 5, "None", "None", "None"),
      RiskItem("physical", "chronic", "Opportunity in cooling products", 10, "long", "likely", "Diversify"),
      RiskItem("transition", "market", "Demand shift", None, "medium", "None", "Hedging") }

(* schema.py GovernanceData: board_oversight (Optional[bool]) and          *)
(* reporting_frequency (Optional[str])                                     *)
DisclosedGovernanceChoices ==
    { [board_oversight |-> "None", reporting_frequency |-> "None"],
      [board_oversight |-> "False", reporting_frequency |-> "None"],
      [board_oversight |-> "True", reporting_frequency |-> "annual"] }

(* source_references: the keywords that occur in str(source_references).lower() *)
DisclosedReferenceChoices == { {}, {"scenario"} }

(* schema.py DisclosureExtract *)
Disclosure(emissions, targets, risks, governance, source_references) ==
    [class |-> "DisclosureExtract", emissions |-> emissions, targets |-> targets,
     risks |-> risks, governance |-> governance, source_references |-> source_references]

(* records that vary what the quantification checks read *)
QuantificationInputs ==
    { Disclosure(em, tg, rk, [board_oversight |-> "None", reporting_frequency |-> "None"], {}) :
        em \in SeqsUpTo(DisclosedEmissionChoices, MaxDisclosedEmissions),
        tg \in SeqsUpTo(DisclosedTargetChoices, MaxDisclosedTargets),
        rk \in SeqsUpTo(DisclosedRiskChoices, 1) }

(* records that vary what the checklist and the risk coverage read *)
CoverageInputs ==
    { Disclosure(em, tg, rk, gv, rf) :
        em \in SeqsUpTo(DisclosedEmissionChoices, 1),
        tg \in SeqsUpTo(DisclosedTargetChoices, MaxDisclosedTargets),
        rk \in SeqsUpTo(DisclosedRiskChoices, MaxDisclosedRisks),
        gv \in DisclosedGovernanceChoices,
        rf \in DisclosedReferenceChoices }

(* a score kept exact, as numerator over denominator *)
Fraction(num, den) == [num |-> num, den |-> den]

Returned(validator_name, score, findings, metadata) ==
    [status |-> "returned", validator_name |-> validator_name, score |-> score,
     findings |-> findings, metadata |-> metadata]

(* the number of entries of a check table that passed, within a group *)
PassedIn(checks, group) ==
    Cardinality({i \in DOMAIN checks : checks[i].group = group /\ checks[i].passed})

CountIn(checks, group) ==
    Cardinality({i \in DOMAIN checks : checks[i].group = group})

(* one finding per entry of the check table that did not pass, in order *)
RECURSIVE MissingFindings(_, _, _, _)
MissingFindings(validator, checks, k, acc) ==
    IF k > Len(checks) THEN acc
    ELSE MissingFindings(validator, checks, k + 1,
            IF checks[k].passed THEN acc
            ELSE Append(acc, Finding(validator, checks[k].code, "warning", checks[k].name)))

(* quantification.py lines 39-103: emission_checks, target_checks and      *)
(* risk_checks, in the order of the merged dict of line 106                *)
QuantificationChecks(e) ==
    << [group |-> "emissions", name |-> "has_scope1_absolute", code |-> "QUANT-HAS_SCOPE1_ABSOLUTE",
        passed |-> AnyOf(e.emissions, LAMBDA x : x.scope = "scope_1" /\ x.value # None)],
       [group |-> "emissions", name |-> "has_scope2_absolute", code |-> "QUANT-HAS_SCOPE2_ABSOLUTE",
        passed |-> AnyOf(e.emissions, LAMBDA x : x.scope = "scope_2" /\ x.value # None)],
       [group |-> "emissions", name |-> "has_scope3_absolute", code |-> "QUANT-HAS_SCOPE3_ABSOLUTE",
        passed |-> AnyOf(e.emissions, LAMBDA x : x.scope = "scope_3" /\ x.value # None)],
       [group |-> "emissions", name |-> "has_baseline_year", code |-> "QUANT-HAS_BASELINE_YEAR",
        passed |-> AnyOf(e.emissions, LAMBDA x : x.baseline_year # None)],
       [group |-> "emissions", name |-> "has_intensity_metric", code |-> "QUANT-HAS_INTENSITY_METRIC",
        passed |-> AnyOf(e.emissions, LAMBDA x : x.intensity_value # None)],
       [group |-> "emissions", name |-> "has_methodology", code |-> "QUANT-HAS_METHODOLOGY",
        passed |-> AnyOf(e.emissions, LAMBDA x : x.methodology # "None")],
       [group |-> "emissions", name |-> "has_third_party_assurance", code |-> "QUANT-HAS_THIRD_PARTY_ASSURANCE",
        passed |-> AnyOf(e.emissions, LAMBDA x : x.assurance_level # "None")],
       [group |-> "targets", name |-> "has_reduction_percentage", code |-> "QUANT-HAS_REDUCTION_PERCENTAGE",
        passed |-> AnyOf(e.targets, LAMBDA x : x.reduction_pct # None)],
       [group |-> "targets", name |-> "has_target_year", code |-> "QUANT-HAS_TARGET_YEAR",
        passed |-> AnyOf(e.targets, LAMBDA x : x.target_year # None)],
       [group |-> "targets", name |-> "has_base_year", code |-> "QUANT-HAS_BASE_YEAR",
        passed |-> AnyOf(e.targets, LAMBDA x : x.base_year # None)],
       [group |-> "targets", name |-> "has_interim_milestones", code |-> "QUANT-HAS_INTERIM_MILESTONES",
        passed |-> AnyOf(e.targets, LAMBDA x : x.interim_targets > 0)],
       [group |-> "targets", name |-> "has_scope_coverage", code |-> "QUANT-HAS_SCOPE_COVERAGE",
        passed |-> AnyOf(e.targets, LAMBDA x : x.scopes_covered > 0)],
       [group |-> "risks", name |-> "has_financial_impact", code |-> "QUANT-HAS_FINANCIAL_IMPACT",
        passed |-> AnyOf(e.risks, LAMBDA x : x.financial_impact_value # None)],
       [group |-> "risks", name |-> "has_time_horizon", code |-> "QUANT-HAS_TIME_HORIZON",
        passed |-> AnyOf(e.risks, LAMBDA x : x.time_horizon # "None")],
       [group |-> "risks", name |-> "has_likelihood", code |-> "QUANT-HAS_LIKELIHOOD",
        passed |-> AnyOf(e.risks, LAMBDA x : x.likelihood # "None")],
       [group |-> "risks", name |-> "has_mitigation", code |-> "QUANT-HAS_MITIGATION",
        passed |-> AnyOf(e.risks, LAMBDA x : x.mitigation_strategy # "None")] >>

(* a variant of the weights of line 116 that swaps the first two *)
QuantificationWeightsSwapped == [emissions |-> 35, targets |-> 40, risks |-> 25]

(* line 116: weights, in percent *)
QuantificationWeights == [emissions |-> 40, targets |-> 35, risks |-> 25]

(* lines 26-124: QuantificationValidator.validate. The sub-scores are      *)
(* passed/len per group (lines 66, 86, 103) and the overall score is their *)
(* weighted sum (line 117), kept over the common denominator               *)
QuantificationValidate(e) ==
    LET checks == QuantificationChecks(e)
        ne == CountIn(checks, "emissions")
        nt == CountIn(checks, "targets")
        nr == CountIn(checks, "risks")
        sub_scores == [g \in {"emissions", "targets", "risks"} |->
                          Fraction(PassedIn(checks, g), Max(CountIn(checks, g), 1))]
        overall == Fraction(
            QuantificationWeights.emissions * sub_scores.emissions.num * nt * nr
              + QuantificationWeights.targets * sub_scores.targets.num * ne * nr
              + QuantificationWeights.risks * sub_scores.risks.num * ne * nt,
            100 * ne * nt * nr)
    IN  Returned("quantification", overall,
                 MissingFindings("quantification", checks, 1, <<>>),
                 [sub_scores |-> sub_scores])

(* a variant of the checklist that keeps the governance pillar only *)
TcfdChecklistGovernanceOnly ==
    [governance |-> {"board_oversight", "management_role"}]

(* completeness.py lines 21-42: TCFD_CHECKLIST, pillar by pillar *)
TCFD_CHECKLIST ==
    [governance |-> {"board_oversight", "management_role"},
     strategy |-> {"climate_risks_identified", "climate_opportunities",
                   "scenario_analysis", "strategy_resilience"},
     risk_management |-> {"risk_identification_process", "risk_management_process",
                          "integration_with_erm"},
     metrics_targets |-> {"ghg_emissions", "climate_targets", "progress_tracking"}]

(* "opportunity" in text, for the lower-cased descriptions of the model *)
ContainsOpportunity(text) == text = "opportunity in cooling products"

(* lines 99-129: _check_tcfd, the results dict in insertion order. RiskItem *)
(* declares category as a required str, so it is never None.               *)
CheckTcfd(e) ==
    << [group |-> "tcfd", name |-> "board_oversight", code |-> "COMPL-TCFD-BOARD_OVERSIGHT",
        passed |-> e.governance.board_oversight # "None"],
       [group |-> "tcfd", name |-> "management_role", code |-> "COMPL-TCFD-MANAGEMENT_ROLE",
        passed |-> e.governance.reporting_frequency # "None"],
       [group |-> "tcfd", name |-> "climate_risks_identified", code |-> "COMPL-TCFD-CLIMATE_RISKS_IDENTIFIED",
        passed |-> Len(e.risks) > 0],
       [group |-> "tcfd", name |-> "climate_opportunities", code |-> "COMPL-TCFD-CLIMATE_OPPORTUNITIES",
        passed |-> AnyOf(e.risks, LAMBDA x : ContainsOpportunity(Lower(x.description)))],
       [group |-> "tcfd", name |-> "scenario_analysis", code |-> "COMPL-TCFD-SCENARIO_ANALYSIS",
        passed |-> "scenario" \in e.source_references],
       [group |-> "tcfd", name |-> "risk_identification_process", code |-> "COMPL-TCFD-RISK_IDENTIFICATION_PROCESS",
        passed |-> AnyOf(e.risks, LAMBDA x : x.category # "None")],
       [group |-> "tcfd", name |-> "risk_management_process", code |-> "COMPL-TCFD-RISK_MANAGEMENT_PROCESS",
        passed |-> AnyOf(e.risks, LAMBDA x : x.mitigation_strategy # "None")],
       [group |-> "tcfd", name |-> "ghg_emissions", code |-> "COMPL-TCFD-GHG_EMISSIONS",
        passed |-> Len(e.emissions) > 0],
       [group |-> "tcfd", name |-> "climate_targets", code |-> "COMPL-TCFD-CLIMATE_TARGETS",
        passed |-> Len(e.targets) > 0],
       [group |-> "tcfd", name |-> "progress_tracking", code |-> "COMPL-TCFD-PROGRESS_TRACKING",
        passed |-> AnyOf(e.emissions, LAMBDA x : x.baseline_year # None)] >>

(* lines 62-97: CompletenessValidator.validate; total_items counts the     *)
(* checklist (line 74), covered_items the results of _check_tcfd (line 75).*)
(* The SASB table of the metadata is not part of the score or the findings *)
(* and is left out.                                                        *)
CompletenessValidate(e) ==
    LET tcfd_results == CheckTcfd(e)
        total_items == SumOver([p \in DOMAIN TCFD_CHECKLIST |-> Cardinality(TCFD_CHECKLIST[p])],
                               DOMAIN TCFD_CHECKLIST)
        covered_items == PassedIn(tcfd_results, "tcfd")
        score == Fraction(covered_items, total_items)
    IN  Returned("completeness", score,
                 MissingFindings("completeness", tcfd_results, 1, <<>>),
                 [tcfd_coverage |-> {tcfd_results[i].name : i \in DOMAIN tcfd_results},
                  tcfd_score |-> score])

(* risk_coverage.py line 61: the number of quantified risks *)
QuantifiedRisks(e) ==
    Cardinality({i \in DOMAIN e.risks : e.risks[i].financial_impact_value # None})

(* risk_coverage.py lines 33-86: RiskCoverageValidator.validate.           *)
(* score = breadth * 0.5 + depth * 0.5 with breadth = (p + t) / 2 and      *)
(* depth = quantified / max(len(risks), 1)                                 *)
RiskCoverageValidate(e) ==
    LET covered_types == {e.risks[i].risk_type : i \in DOMAIN e.risks}
                         \cup {e.risks[i].category : i \in DOMAIN e.risks}
        has_physical == AnyOf(e.risks, LAMBDA r : r.risk_type = "physical")
        has_transition == AnyOf(e.risks, LAMBDA r : r.risk_type = "transition")
        quantified == QuantifiedRisks(e)
        total == Max(Len(e.risks), 1)
        breadth_halves == (IF has_physical THEN 1 ELSE 0) + (IF has_transition THEN 1 ELSE 0)
        findings1 == IF has_physical THEN <<>>
                     ELSE <<Finding("risk_coverage", "RISK-001", "critical", "physical")>>
        findings2 == IF has_transition THEN findings1
                     ELSE Append(findings1, Finding("risk_coverage", "RISK-002", "critical", "transition"))
        findings3 == IF 10 * quantified < 3 * total
                     THEN Append(findings2, Finding("risk_coverage", "RISK-003", "warning", "quantified"))
                     ELSE findings2
    IN  Returned("risk_coverage",
                 Fraction(breadth_halves * total + 2 * quantified, 4 * total),
                 findings3,
                 [risk_types_covered |-> covered_types, physical_covered |-> has_physical,
                  transition_covered |-> has_transition,
                  quantification_rate |-> Fraction(quantified, total)])

RuleValidators == {"quantification", "completeness", "risk_coverage"}

ValidatorsInit ==
    /\ IdlePipeline
    /\ IdleSearch
    /\ IdleAdapter
    /\ IdleNews
    /\ extract \in QuantificationInputs \cup CoverageInputs
    /\ validation = [v \in RuleValidators |-> NotValidated]

(* The validators are run one after the other, in the order in which      *)
(* ValidationPipeline.default_pipeline lists them.                         *)
(* QuantificationValidator().validate(extract) *)
QuantificationValidates ==
    /\ validation["quantification"] = NotValidated
    /\ validation["completeness"] = NotValidated
    /\ validation' = [validation EXCEPT !["quantification"] = QuantificationValidate(extract)]
    /\ UNCHANGED <<extract, pipelineVars, searchVars, adapterVars, newsVars>>

(* CompletenessValidator().validate(extract) *)
CompletenessValidates ==
    /\ validation["quantification"] # NotValidated
    /\ validation["completeness"] = NotValidated
    /\ validation' = [validation EXCEPT !["completeness"] = CompletenessValidate(extract)]
    /\ UNCHANGED <<extract, pipelineVars, searchVars, adapterVars, newsVars>>

(* RiskCoverageValidator().validate(extract) *)
RiskCoverageValidates ==
    /\ validation["completeness"] # NotValidated
    /\ validation["risk_coverage"] = NotValidated
    /\ validation' = [validation EXCEPT !["risk_coverage"] = RiskCoverageValidate(extract)]
    /\ UNCHANGED <<extract, pipelineVars, searchVars, adapterVars, newsVars>>

ValidatorsNext ==
    \/ QuantificationValidates
    \/ CompletenessValidates
    \/ RiskCoverageValidates

ValidatorsSpec == ValidatorsInit /\ [][ValidatorsNext]_vars

(* the number of the seven emission items a record meets *)
EmissionItemsMet ==
    Cardinality({s \in AllScopes : \E i \in DOMAIN extract.emissions :
                    extract.emissions[i].scope = s /\ extract.emissions[i].value # None})
    + Cardinality({f \in {"baseline_year", "intensity_value"} :
                    \E i \in DOMAIN extract.emissions : extract.emissions[i][f] # None})
    + Cardinality({f \in {"methodology", "assurance_level"} :
                    \E i \in DOMAIN extract.emissions : extract.emissions[i][f] # "None"})

(* the number of the five target items a record meets *)
TargetItemsMet ==
    Cardinality({f \in {"reduction_pct", "target_year", "base_year"} :
                    \E i \in DOMAIN extract.targets : extract.targets[i][f] # None})
    + Cardinality({f \in {"interim_targets", "scopes_covered"} :
                    \E i \in DOMAIN extract.targets : extract.targets[i][f] > 0})

(* the number of the four risk items a record meets *)
RiskItemsMet ==
    Cardinality({f \in {"time_horizon", "likelihood", "mitigation_strategy"} :
                    \E i \in DOMAIN extract.risks : extract.risks[i][f] # "None"})
    + (IF \E i \in DOMAIN extract.risks : extract.risks[i].financial_impact_value # None
       THEN 1 ELSE 0)

(* C12: the quantification score is 0.40*(e/7) + 0.35*(t/5) + 0.25*(r/4)   *)
(* for e, t, r items met, with one warning finding per unmet item; it is   *)
(* 1.0 exactly when all 16 items are met and 0.0 when none is.             *)
C12_QuantificationScore ==
    LET result == validation["quantification"]
        met == EmissionItemsMet + TargetItemsMet + RiskItemsMet
    IN  result # NotValidated =>
           /\ result.status = "returned"
           /\ result.validator_name = "quantification"
           /\ result.score.num * (100 * 7 * 5 * 4)
                = result.score.den * (40 * EmissionItemsMet * 5 * 4
                                      + 35 * TargetItemsMet * 7 * 4
                                      + 25 * RiskItemsMet * 7 * 5)
           /\ Len(result.findings) = 16 - met
           /\ \A i \in DOMAIN result.findings : result.findings[i].severity = "warning"
           /\ \A i \in DOMAIN result.findings : \A j \in DOMAIN result.findings :
                 result.findings[i].code = result.findings[j].code => i = j
           /\ (result.score.num = result.score.den) <=> (met = 16)
           /\ (met = 0) => (result.score.num = 0)

C12_Witness ==
    /\ validation["quantification"] # NotValidated
    /\ validation["quantification"].score.num = validation["quantification"].score.den
    /\ Len(validation["quantification"].findings) = 0
    /\ Len(extract.emissions) = 3

(* every item of the four-pillar checklist *)
ChecklistItems == UNION {TCFD_CHECKLIST[p] : p \in DOMAIN TCFD_CHECKLIST}

(* the record discloses what a checklist item asks for, as far as the      *)
(* record's fields can show it                                             *)
Covers(item) ==
    CASE item = "board_oversight" -> extract.governance.board_oversight # "None"
      [] item = "management_role" -> extract.governance.reporting_frequency # "None"
      [] item = "climate_risks_identified" -> extract.risks # <<>>
      [] item = "climate_opportunities" ->
            \E i \in DOMAIN extract.risks :
               extract.risks[i].description = "Opportunity in cooling products"
      [] item = "scenario_analysis" -> "scenario" \in extract.source_references
      [] item = "risk_identification_process" -> extract.risks # <<>>
      [] item = "risk_management_process" ->
            \E i \in DOMAIN extract.risks : extract.risks[i].mitigation_strategy # "None"
      [] item = "ghg_emissions" -> extract.emissions # <<>>
      [] item = "climate_targets" -> extract.targets # <<>>
      [] item = "progress_tracking" ->
            \E i \in DOMAIN extract.emissions : extract.emissions[i].baseline_year # None
      [] OTHER -> FALSE

(* the record covers every item that its fields can show *)
CoversEverything ==
    \A item \in ChecklistItems \ {"strategy_resilience", "integration_with_erm"} : Covers(item)

(* C13: the completeness score is covered / 11 over a checklist of 11      *)
(* items, every checklist item is evaluated, there is one warning finding  *)
(* per uncovered item, and a record that covers every item scores 1.0.     *)
C13_CompletenessOverChecklist ==
    LET result == validation["completeness"]
    IN  result # NotValidated =>
           /\ result.status = "returned"
           /\ Cardinality(ChecklistItems) = 11
           /\ result.metadata.tcfd_coverage = ChecklistItems
           /\ result.score.den = Cardinality(ChecklistItems)
           /\ result.score.num = Cardinality(result.metadata.tcfd_coverage) - Len(result.findings)
           /\ Len(result.findings) = Cardinality({item \in ChecklistItems : ~Covers(item)})
           /\ \A i \in DOMAIN result.findings : result.findings[i].severity = "warning"
           /\ CoversEverything => result.score.num = result.score.den

(* the record with zero targets, zero risks and zero emissions *)
EmptyRecord ==
    /\ extract.targets = <<>>
    /\ extract.risks = <<>>
    /\ extract.emissions = <<>>

(* C14: on a record with no targets, risks or emissions, whatever its      *)
(* governance and provenance, the risk coverage score is exactly 0.0 with  *)
(* critical findings RISK-001 and RISK-002 among its findings, and the     *)
(* completeness score is below 0.5.                                        *)
C14_EmptyRecordScores ==
    LET coverage == validation["risk_coverage"]
        completeness == validation["completeness"]
    IN  EmptyRecord =>
           /\ coverage # NotValidated =>
                 /\ coverage.status = "returned"
                 /\ coverage.score.num = 0
                 /\ \E i \in DOMAIN coverage.findings :
                       coverage.findings[i].code = "RISK-001"
                       /\ coverage.findings[i].severity = "critical"
                 /\ \E i \in DOMAIN coverage.findings :
                       coverage.findings[i].code = "RISK-002"
                       /\ coverage.findings[i].severity = "critical"
           /\ completeness # NotValidated =>
                 /\ completeness.status = "returned"
                 /\ 2 * completeness.score.num < completeness.score.den

C14_Witness ==
    /\ EmptyRecord
    /\ extract.governance.reporting_frequency = "annual"
    /\ "scenario" \in extract.source_references
    /\ validation["risk_coverage"] # NotValidated
    /\ validation["completeness"] # NotValidated
    /\ validation["completeness"].score.num = 3

-----------------------------------------------------------------------------
(* Registry adapters: SBTiAdapter (cda/adapters/sbti_adapter.py) and       *)
(* CDPAdapter (cda/adapters/cdp_adapter.py)                                *)

MaxRows == 2

Raised(exception) == [status |-> "raised", exception |-> exception]

(* the company names of the model *)
CompanyNames == {"Acme Corp", "Initech"}
RegistryNames == {"Acme Corp", "Acme Corporation", "ACME Corp", "Globex"}

(* difflib: SequenceMatcher(None, name, company_name).ratio(), in percent  *)
(* rounded down, for the names of the model                                *)
Ratio(company_name, name) ==
    CASE company_name = "Acme Corp" /\ name = "Acme Corp" -> 100
      [] company_name = "Acme Corp" /\ name = "Acme Corporation" -> 72
      [] company_name = "Acme Corp" /\ name = "ACME Corp" -> 66
      [] company_name = "Acme Corp" /\ name = "Globex" -> 13
      [] company_name = "Initech" /\ name = "Acme Corp" -> 12
      [] company_name = "Initech" /\ name = "Acme Corporation" -> 8
      [] company_name = "Initech" /\ name = "Globex" -> 15
      [] OTHER -> 0

(* get_close_matches(company_name, names, n, cutoff=0.7): the names that   *)
(* score at least the cutoff; both adapters keep every row whose name is   *)
(* among the n best, and no table of the model has more than n such names  *)
CloseMatches(company_name, rows) ==
    {i \in DOMAIN rows : Ratio(company_name, rows[i].company) >= 70}

(* the row with the best-scoring name, first such row of the table *)
BestMatch(company_name, rows) ==
    LET close == CloseMatches(company_name, rows)
        best == CHOOSE i \in close :
                   /\ \A j \in close : Ratio(company_name, rows[j].company)
                                          <= Ratio(company_name, rows[i].company)
                   /\ \A j \in close : rows[j].company = rows[i].company => i <= j
    IN  rows[best]

(* _load: None stays None, a DataFrame is kept *)
NoData == [class |-> "NoneType", rows |-> <<>>]
DataFrame(rows) == [class |-> "DataFrame", rows |-> rows]

RegistryRows == [company : RegistryNames, target_year : {2030, 2035}]

Adapters ==
    { [name |-> n, data |-> d] :
        n \in {"sbti", "cdp"},
        d \in {NoData} \cup {DataFrame(rows) : rows \in SeqsUpTo(RegistryRows, MaxRows)} }

(* schema.py TargetData: is_science_based (Optional[bool]) and target_year *)
ScienceTargetChoices ==
    { [is_science_based |-> "True", target_year |-> 2030],
      [is_science_based |-> "True", target_year |-> None],
      [is_science_based |-> "False", target_year |-> 2030],
      [is_science_based |-> "None", target_year |-> None] }

FrameworkChoices == { <<>>, <<"TCFD">>, <<"TCFD", "CDP">>, <<"cdp">> }

(* schema.py DisclosureExtract, the fields the adapters read *)
RegistryInputs ==
    [class : {"DisclosureExtract"},
     company_name : CompanyNames,
     framework : FrameworkChoices,
     targets : SeqsUpTo(ScienceTargetChoices, MaxTargets)]

(* the adapters' score: 1.0 - 0.3 per critical finding, floored at 0.0,    *)
(* counting findings of any severity in the variant                        *)
AdapterScoreAnySeverity(findings) == Max(1000 - 300 * Len(findings), 0)

(* sbti_adapter.py lines 59, 63 and cdp_adapter.py lines 59-60 *)
AdapterScore(findings) ==
    Max(1000 - 300 * Cardinality({i \in DOMAIN findings : findings[i].severity = "critical"}), 0)

(* sbti_adapter.py lines 82-97: _compare_target *)
CompareTarget(disclosed_target, sbti_record) ==
    IF Truthy(disclosed_target.target_year)
       /\ disclosed_target.target_year # sbti_record.target_year
    THEN <<Finding("sbti", "SBTI-002", "warning", "target_year")>>
    ELSE <<>>

RECURSIVE CompareTargets(_, _, _, _)
CompareTargets(targets, match, k, acc) ==
    IF k > Len(targets) THEN acc
    ELSE CompareTargets(targets, match, k + 1,
            IF targets[k].is_science_based = "True"
            THEN acc \o CompareTarget(targets[k], match)
            ELSE acc)

(* sbti_adapter.py lines 30-66: SBTiAdapter.cross_validate, with           *)
(* _fuzzy_match of lines 68-80 (None for an empty table or no close name)  *)
SbtiCrossValidate(data, e) ==
    IF data.class = "NoneType" THEN Raised("DataNotAvailableError")
    ELSE LET found == CloseMatches(e.company_name, data.rows) # {}
             findings ==
                IF ~found
                THEN IF AnyOf(e.targets, LAMBDA t : t.is_science_based = "True")
                     THEN <<Finding("sbti", "SBTI-001", "critical", "not found")>>
                     ELSE <<>>
                ELSE CompareTargets(e.targets, BestMatch(e.company_name, data.rows), 1, <<>>)
         IN  Returned("adapter:sbti", AdapterScore(findings), findings,
                      [sbti_record_found |-> found])

(* cdp_adapter.py lines 30-67: CDPAdapter.cross_validate, with             *)
(* _fuzzy_match of lines 69-100. When rows match, matches is a DataFrame   *)
(* and `not matches` (line 42) raises ValueError: the truth value of a     *)
(* DataFrame is ambiguous; lines 52-56 are never reached.                  *)
CdpCrossValidate(data, e) ==
    IF data.class = "NoneType" THEN Raised("DataNotAvailableError")
    ELSE IF CloseMatches(e.company_name, data.rows) # {} THEN Raised("ValueError")
    ELSE LET findings ==
                IF \E i \in DOMAIN e.framework : Lower(e.framework[i]) = "cdp"
                THEN <<Finding("cdp", "CDP-001", "warning", "not found")>>
                ELSE <<>>
         IN  Returned("adapter:cdp", AdapterScore(findings), findings,
                      [cdp_records_found |-> 0])

CrossValidate(a, e) ==
    IF a.name = "sbti" THEN SbtiCrossValidate(a.data, e) ELSE CdpCrossValidate(a.data, e)

AdapterInit ==
    /\ IdlePipeline
    /\ IdleSearch
    /\ IdleNews
    /\ adapter \in Adapters
    /\ extract \in RegistryInputs
    /\ validation = NotValidated

(* adapter.cross_validate(extract) returns a ValidationResult *)
CrossValidateReturns ==
    /\ validation = NotValidated
    /\ CrossValidate(adapter, extract).status = "returned"
    /\ validation' = CrossValidate(adapter, extract)
    /\ UNCHANGED <<extract, adapter, pipelineVars, searchVars, newsVars>>

(* adapter.cross_validate(extract) raises *)
CrossValidateRaises ==
    /\ validation = NotValidated
    /\ CrossValidate(adapter, extract).status = "raised"
    /\ validation' = CrossValidate(adapter, extract)
    /\ UNCHANGED <<extract, adapter, pipelineVars, searchVars, newsVars>>

AdapterNext ==
    \/ CrossValidateReturns
    \/ CrossValidateRaises

AdapterSpec == AdapterInit /\ [][AdapterNext]_vars

(* the adapter holds a reference table and no row matches the company *)
NoMatchingRow ==
    /\ adapter.data.class = "DataFrame"
    /\ \A i \in DOMAIN adapter.data.rows :
          adapter.data.rows[i].company \notin {"Acme Corp", "Acme Corporation"}
          \/ extract.company_name # "Acme Corp"

CriticalFindings(findings) ==
    Cardinality({i \in DOMAIN findings : findings[i].severity = "critical"})

(* C15: with a reference table and no matching row, SBTiAdapter emits      *)
(* exactly one critical SBTI-001 finding iff some target is science-based  *)
(* (score 0.7), CDPAdapter emits exactly one warning CDP-001 finding iff   *)
(* the frameworks include CDP in any letter case (score 1.0), and both     *)
(* score max(1.0 - 0.3 * critical count, 0.0).                             *)
C15_NoMatchFindings ==
    (validation # NotValidated /\ NoMatchingRow) =>
       /\ validation.status = "returned"
       /\ validation.score = Max(1000 - 300 * CriticalFindings(validation.findings), 0)
       /\ adapter.name = "sbti" =>
             IF \E i \in DOMAIN extract.targets : extract.targets[i].is_science_based = "True"
             THEN /\ Len(validation.findings) = 1
                  /\ validation.findings[1].code = "SBTI-001"
                  /\ validation.findings[1].severity = "critical"
                  /\ validation.score = 700
             ELSE validation.findings = <<>>
       /\ adapter.name = "cdp" =>
             /\ validation.score = 1000
             /\ IF \E i \in DOMAIN extract.framework : extract.framework[i] \in {"CDP", "cdp"}
                THEN /\ Len(validation.findings) = 1
                     /\ validation.findings[1].code = "CDP-001"
                     /\ validation.findings[1].severity = "warning"
                ELSE validation.findings = <<>>

C15_Witness ==
    /\ NoMatchingRow
    /\ validation # NotValidated
    /\ adapter.name = "sbti"
    /\ Len(adapter.data.rows) = 2
    /\ extract.company_name = "Acme Corp"
    /\ Len(validation.findings) = 1
    /\ validation.score = 700

MatchingRow ==
    /\ adapter.data.class = "DataFrame"
    /\ \E i \in DOMAIN adapter.data.rows :
          /\ adapter.data.rows[i].company \in {"Acme Corp", "Acme Corporation"}
          /\ extract.company_name = "Acme Corp"

(* C26: when a row of the CDP adapter's table matches the record's company *)
(* name, cross_validate returns a result whose findings all have severity  *)
(* info or warning and whose score is 1.0.                                 *)
C26_CdpMatchReturns ==
    (validation # NotValidated /\ adapter.name = "cdp" /\ MatchingRow) =>
       /\ validation.status = "returned"
       /\ \A i \in DOMAIN validation.findings :
             validation.findings[i].severity \in {"info", "warning"}
       /\ validation.score = 1000

-----------------------------------------------------------------------------
(* News cross-referencer: data models (cda/validation/news_models.py)      *)

MaxContradictions == 4
MaxTotalEvents == 2

(* news_models.py NewsArticle: title and url *)
NewsArticle(title, url) == [title |-> title, url |-> url]

(* news_models.py EnvironmentalEvent; confidence in hundredths, an absent  *)
(* financial impact is None                                                *)
EnvironmentalEvent(event_type, description, date, severity, financial_impact, source_article, keywords, confidence) ==
    [event_type |-> event_type, description |-> description, date |-> date,
     severity |-> severity, financial_impact |-> financial_impact,
     source_article |-> source_article, keywords |-> keywords, confidence |-> confidence]

(* news_models.py Contradiction *)
Contradiction(contradiction_type, severity, evidence_from_news, event, impact_on_credibility) ==
    [contradiction_type |-> contradiction_type, severity |-> severity,
     evidence_from_news |-> evidence_from_news, event |-> event,
     impact_on_credibility |-> impact_on_credibility]

-----------------------------------------------------------------------------
(* CredibilityScorer (cda/validation/credibility_scorer.py)                *)

(* a variant of the deduction that treats a warning as a critical *)
DeductionWarningAsCritical(severity) ==
    CASE severity = "critical" -> 30
      [] severity = "warning" -> 30
      [] severity = "info" -> 5
      [] OTHER -> 0

(* lines 29-35: the points deducted for one contradiction *)
Deduction(severity) ==
    CASE severity = "critical" -> 30
      [] severity = "warning" -> 15
      [] severity = "info" -> 5
      [] OTHER -> 0

RECURSIVE DeductAll(_, _, _)
DeductAll(cs, k, base_score) ==
    IF k > Len(cs) THEN base_score
    ELSE DeductAll(cs, k + 1, base_score - Deduction(cs[k].severity))

(* a variant of score without the floor at 0 *)
CredibilityScoreUnfloored(cs, n_events) ==
    LET base_score == DeductAll(cs, 1, 100)
    IN  IF n_events = 0 /\ cs = <<>> THEN 100 ELSE base_score

(* lines 11-44: CredibilityScorer.score, in points *)
CredibilityScore(cs, n_events) ==
    LET base_score == DeductAll(cs, 1, 100)
        floored == Max(0, base_score)
    IN  IF n_events = 0 /\ cs = <<>> THEN 100 ELSE floored

SampleEvent ==
    EnvironmentalEvent("fine", "Company fined for pollution", "2023-06-15", "critical", None,
                       NewsArticle("Test Article", "https://example.com/article"),
                       <<"fine", "pollution">>, 90)

ScoredContradictions ==
    { Contradiction("omission", sv, "Company fined for pollution", SampleEvent, 0 - Deduction(sv)) :
        sv \in {"critical", "warning", "info", "high"} }

CredibilityInit ==
    /\ IdlePipeline
    /\ IdleSearch
    /\ IdleConsistency
    /\ IdleAdapter
    /\ news_articles = <<>>
    /\ llm = <<>>
    /\ llm_calls = <<>>
    /\ events = <<>>
    /\ total_events \in 0..MaxTotalEvents
    /\ contradictions \in SeqsUpTo(ScoredContradictions, MaxContradictions)
    /\ credibility_score = None
    /\ news_pc = "scoring"
    /\ news_i = 0
    /\ news_j = 0
    /\ search_calls = <<>>
    /\ news_provider = "brave"

(* CredibilityScorer().score(contradictions, total_events) *)
Score ==
    /\ news_pc = "scoring"
    /\ credibility_score' = CredibilityScore(contradictions, total_events)
    /\ news_pc' = "scored"
    /\ UNCHANGED <<news_articles, llm, llm_calls, events, total_events, contradictions,
                   news_i, news_j, search_calls, news_provider>>
    /\ UNCHANGED <<pipelineVars, searchVars, consistencyVars, adapterVars>>

CredibilityNext == Score

CredibilitySpec == CredibilityInit /\ [][CredibilityNext]_vars

(* the number of contradictions of a severity *)
CountSeverity(severity) ==
    Cardinality({i \in DOMAIN contradictions : contradictions[i].severity = severity})

(* C16: score returns max(0, 100 - 30*critical - 15*warning - 5*info), a   *)
(* value in [0, 100]; 70.0 for one critical contradiction with             *)
(* total_events = 1 and 100.0 for no contradiction with total_events = 0.  *)
C16_CredibilityFormula ==
    news_pc = "scored" =>
       /\ credibility_score =
             Max(0, 100 - 30 * CountSeverity("critical") - 15 * CountSeverity("warning")
                        - 5 * CountSeverity("info"))
       /\ credibility_score \in 0..100
       /\ (CountSeverity("critical") = 1 /\ Len(contradictions) = 1 /\ total_events = 1)
             => credibility_score = 70
       /\ (contradictions = <<>> /\ total_events = 0) => credibility_score = 100

C16_Witness ==
    /\ news_pc = "scored"
    /\ Len(contradictions) = 4
    /\ CountSeverity("critical") = 3
    /\ CountSeverity("warning") = 1
    /\ credibility_score = 0

-----------------------------------------------------------------------------
(* EventExtractor (cda/validation/event_extractor.py)                      *)

MaxNewsArticles == 2

(* line 64: the articles of one batch *)
batch_size == 10

(* the articles of the model: article k has title and url k *)
ArticlesNumbered(n) == [k \in 1..n |-> NewsArticle(ToString(k), ToString(k))]

RequiredFields == {"event_type", "description", "date", "severity", "confidence"}

(* a JSON object of the language model; a value that is not of the usual   *)
(* JSON type is told by the *_kind fields                                  *)
Json(present, event_type, description_kind, date_kind, date, severity, confidence_kind, confidence) ==
    [kind |-> "json", present |-> present, event_type |-> event_type,
     description_kind |-> description_kind, date_kind |-> date_kind, date |-> date,
     severity |-> severity, confidence_kind |-> confidence_kind, confidence |-> confidence]

(* an answer that is not a JSON object: the call raises, the text is       *)
(* "null" in some letter case, empty, prose without braces, or braces      *)
(* around text that is not JSON                                            *)
Answer(kind) ==
    [kind |-> kind, present |-> {}, event_type |-> "other", description_kind |-> "str",
     date_kind |-> "str", date |-> "", severity |-> "low", confidence_kind |-> "number",
     confidence |-> 0]

LlmAnswers ==
    { Answer(k) : k \in {"raise", "null", "NULL", "empty", "prose", "broken_json"} }
    \cup { Json(RequiredFields, "fine", "str", "str", "2023-06-15", "critical", "number", c) :
             c \in {0 - 20, 30, 50, 90, 170} }
    \cup { Json(RequiredFields \ {"severity"}, "fine", "str", "str", "2023-06-15", "critical", "number", 90),
           Json(RequiredFields, "fine", "str", "str", "2023-06-15", "critical", "text", 90),
           Json(RequiredFields, "spill", "str", "str", "06/15/2023", "severe", "number", 90),
           Json(RequiredFields, "lawsuit", "str", "str", "last week", "high", "number", 90),
           Json(RequiredFields, "fine", "str", "number", "2023", "critical", "number", 90),
           Json(RequiredFields, "fine", "str", "null", "", "critical", "number", 90),
           Json(RequiredFields, "fine", "null", "str", "2023-06-15T10:00:00Z", "critical", "number", 90) }

(* a usual answer, for the long article lists *)
UsualAnswer == Json(RequiredFields, "fine", "str", "str", "2023-06-15", "critical", "number", 90)

(* answer lists for one more article than a batch holds: usual answers     *)
(* with one answer of any kind at one position                             *)
LongAnswerLists ==
    { [k \in 1..(batch_size + 1) |-> IF k = at THEN a ELSE UsualAnswer] :
        at \in {1, batch_size, batch_size + 1}, a \in LlmAnswers }

EventTypes == {"fine", "lawsuit", "accident", "regulation", "violation",
               "investigation", "ngo_report", "other"}

(* lines 187-202: the date formats the parser normalises, for the dates of *)
(* the model; a text in no known format is kept as it is                   *)
NormalizeDate(date_str) ==
    CASE date_str = "2023-06-15T10:00:00Z" -> "2023-06-15"
      [] date_str = "06/15/2023" -> "2023-06-15"
      [] OTHER -> date_str

(* line 218: max(0.0, min(1.0, confidence)), in hundredths *)
Clamp(confidence) == Max(0, IF confidence <= 100 THEN confidence ELSE 100)

NoEvent == [status |-> "none"]
EventRaised(exception) == [status |-> "raised", exception |-> exception]

(* lines 161-240: _parse_llm_response. The result is the parsed data, no   *)
(* data (None), or the exception an except clause of the function catches  *)
(* (and turns into None, lines 234-240).                                   *)
ParseBody(r) ==
    IF r.kind \in {"null", "NULL", "empty"} THEN NoEvent
    ELSE IF r.kind = "prose" THEN NoEvent
    ELSE IF r.kind = "broken_json" THEN EventRaised("JSONDecodeError")
    ELSE IF ~(RequiredFields \subseteq r.present) THEN NoEvent
    ELSE IF r.date_kind = "number" THEN EventRaised("AttributeError")
    ELSE IF r.confidence_kind = "text" THEN EventRaised("ValueError")
    ELSE [status |-> "data",
          event_type |-> IF r.event_type \in EventTypes THEN r.event_type ELSE "other",
          description_kind |-> r.description_kind,
          date_kind |-> r.date_kind,
          date |-> IF r.date_kind = "str" /\ r.date # "" THEN NormalizeDate(r.date) ELSE r.date,
          severity |-> IF r.severity \in {"critical", "high", "medium", "low"}
                       THEN r.severity ELSE "medium",
          confidence |-> Clamp(r.confidence)]

(* a handler that lets the exception through *)
NotCaught(outcome) == outcome

(* `except Exception: return None` (lines 123-125 and 234-240) *)
Caught(outcome) == IF outcome.status = "raised" THEN NoEvent ELSE outcome

ParseLlmResponse(r) == Caught(ParseBody(r))

(* lines 98-121: the body of the try of _extract_single_event;             *)
(* EnvironmentalEvent rejects a description or date that is not a string   *)
SingleEventBody(article, r) ==
    IF r.kind = "raise" THEN EventRaised("LLMError")
    ELSE LET event_data == ParseLlmResponse(r)
         IN  IF event_data.status # "data" THEN event_data
             ELSE IF event_data.description_kind # "str" \/ event_data.date_kind # "str"
                  THEN EventRaised("ValidationError")
             ELSE [status |-> "event",
                   event |-> EnvironmentalEvent(event_data.event_type, "description",
                                                event_data.date, event_data.severity, None,
                                                article, <<>>, event_data.confidence)]

(* lines 89-125: _extract_single_event *)
ExtractSingleEvent(article, r) == Caught(SingleEventBody(article, r))

ExtractorInit ==
    /\ IdlePipeline
    /\ IdleSearch
    /\ IdleConsistency
    /\ IdleAdapter
    /\ llm \in SeqsUpTo(LlmAnswers, MaxNewsArticles) \cup LongAnswerLists
    /\ news_articles = ArticlesNumbered(Len(llm))
    /\ llm_calls = <<>>
    /\ events = <<>>
    /\ total_events = 0
    /\ contradictions = <<>>
    /\ credibility_score = None
    /\ news_pc = "extracting"
    /\ news_i = 0
    /\ news_j = 0
    /\ search_calls = <<>>
    /\ news_provider = "brave"

(* the batch news_articles[i:i + batch_size] *)
BatchLen == Max(0, (IF news_i + batch_size <= Len(news_articles)
                    THEN news_i + batch_size ELSE Len(news_articles)) - news_i)

InBatch ==
    /\ news_pc = "extracting"
    /\ news_i < Len(news_articles)
    /\ news_j < BatchLen

(* lines 82-85: one article of the batch is submitted to the language      *)
(* model; its event is kept when it passes the confidence filter. An       *)
(* exception that leaves _extract_single_event leaves extract_events too.  *)
SubmitArticle ==
    /\ InBatch
    /\ LET article == news_articles[news_i + news_j + 1]
           outcome == ExtractSingleEvent(article, llm[Len(llm_calls) + 1])
       IN  /\ llm_calls' = Append(llm_calls, article.title)
           /\ events' = IF outcome.status = "event" /\ outcome.event.confidence >= 50
                        THEN Append(events, outcome.event)
                        ELSE events
           /\ news_pc' = IF outcome.status = "raised" THEN "raised" ELSE news_pc
    /\ news_j' = news_j + 1
    /\ UNCHANGED <<news_articles, llm, total_events, contradictions, credibility_score,
                   news_i, search_calls, news_provider>>
    /\ UNCHANGED <<pipelineVars, searchVars, consistencyVars, adapterVars>>

(* lines 67-70: the batch is done, its events are kept, the next begins *)
NextBatch ==
    /\ news_pc = "extracting"
    /\ news_i < Len(news_articles)
    /\ news_j = BatchLen
    /\ news_i' = news_i + batch_size
    /\ news_j' = 0
    /\ UNCHANGED <<news_articles, llm, llm_calls, events, total_events, contradictions,
                   credibility_score, news_pc, search_calls, news_provider>>
    /\ UNCHANGED <<pipelineVars, searchVars, consistencyVars, adapterVars>>

(* lines 60-61 and 72: extract_events returns *)
ReturnEvents ==
    /\ news_pc = "extracting"
    /\ news_i >= Len(news_articles)
    /\ news_pc' = "extracted"
    /\ UNCHANGED <<news_articles, llm, llm_calls, events, total_events, contradictions,
                   credibility_score, news_i, news_j, search_calls, news_provider>>
    /\ UNCHANGED <<pipelineVars, searchVars, consistencyVars, adapterVars>>

ExtractorNext ==
    \/ SubmitArticle
    \/ NextBatch
    \/ ReturnEvents

ExtractorSpec == ExtractorInit /\ [][ExtractorNext]_vars

(* the answer to article k lets the extractor build an event it keeps *)
YieldsKeptEvent(k) ==
    /\ llm[k].kind = "json"
    /\ RequiredFields \subseteq llm[k].present
    /\ llm[k].description_kind = "str"
    /\ llm[k].date_kind = "str"
    /\ llm[k].confidence_kind = "number"
    /\ llm[k].confidence >= 50

(* C17: extract_events never fails on a failed or malformed answer of the  *)
(* language model; each article is submitted once and yields at most one   *)
(* event; an article whose call raises, whose answer is unparseable, lacks *)
(* a required field or says "not relevant" yields no event while the other *)
(* articles are still processed; every returned event has a confidence in  *)
(* [0.5, 1.0].                                                             *)
C17_ExtractionTolerant ==
    /\ news_pc \in {"extracting", "extracted"}
    /\ \A k \in DOMAIN llm_calls : llm_calls[k] = news_articles[k].title
    /\ \A k \in DOMAIN events : events[k].confidence \in 50..100
    /\ \A k \in DOMAIN events : \A m \in DOMAIN events :
          events[k].source_article = events[m].source_article => k = m
    /\ news_pc = "extracted" =>
          /\ Len(llm_calls) = Len(news_articles)
          /\ \A k \in DOMAIN news_articles :
                (\E m \in DOMAIN events : events[m].source_article = news_articles[k])
                   <=> YieldsKeptEvent(k)

C17_Witness ==
    /\ news_pc = "extracted"
    /\ Len(news_articles) = batch_size + 1
    /\ llm[batch_size].kind = "raise"
    /\ Len(events) = batch_size
    /\ Len(llm_calls) = batch_size + 1

-----------------------------------------------------------------------------
(* CrossValidator._check_omissions (cda/validation/cross_validator.py)     *)

MaxEvents == 2

(* `needle in text` for the lower-cased texts of the model: "fine" occurs  *)
(* in "refinery" as it does in "epa fine"                                  *)
Contains(text, needle) ==
    \/ text = needle
    \/ text = "epa fine for the ohio plant" /\ needle \in {"fine", "epa"}
    \/ text = "refinery upgrade program" /\ needle = "fine"
    \/ text = "company fined for pollution" /\ needle \in {"fine", "pollution"}

(* schema.py DisclosureExtract, the fields the cross validator reads *)
NarrativeInputs ==
    [class : {"DisclosureExtract"},
     report_year : {2023},
     risks : SeqsUpTo([description : {"No significant environmental risks",
                                      "EPA Fine for the Ohio plant",
                                      "Refinery upgrade program"}], MaxRisks),
     targets : SeqsUpTo([description : {"Net Zero by 2050"}], 1),
     emissions : SeqsUpTo([scope : {"scope_1"}, value : {100}], 1)]

ReportedEvents ==
    LET article == NewsArticle("Test Corp Fined for Pollution", "https://example.com/fine")
    IN  { EnvironmentalEvent("fine", "Company fined for pollution", "2023-06-15", "critical",
                             None, article, <<"Fine", "pollution">>, 90),
          EnvironmentalEvent("lawsuit", "Company fined for pollution", "2023-06-15", "warning",
                             None, article, <<"pollution">>, 90),
          EnvironmentalEvent("violation", "EPA fine for the Ohio plant", "2023-06-15", "high",
                             None, article, <<>>, 90),
          EnvironmentalEvent("accident", "Company fined for pollution", "2023-06-15", "critical",
                             None, article, <<"pollution">>, 90),
          EnvironmentalEvent("investigation", "Company fined for pollution", "2023-06-15", "warning",
                             None, article, <<"EPA">>, 90),
          EnvironmentalEvent("fine", "Company fined for pollution", "2023-06-15", "low",
                             None, article, <<"EPA">>, 90) }

(* lines 74-82: the record's free text, lower-cased: the risk and target   *)
(* descriptions and "<scope> <value>" of each emission, joined by spaces.  *)
(* It is kept as the list of the joined texts; no text of the model        *)
(* straddles two of them. EmissionText is f"{e.scope.value} {e.value}".    *)
EmissionText(emission) ==
    IF emission.scope = "scope_1" /\ emission.value = 100 THEN "scope_1 100.0" ELSE ""

DisclosureText(e) ==
    [k \in DOMAIN e.risks |-> Lower(e.risks[k].description)]
    \o [k \in DOMAIN e.targets |-> Lower(e.targets[k].description)]
    \o [k \in DOMAIN e.emissions |-> Lower(EmissionText(e.emissions[k]))]

(* lines 85-93: some keyword or the description occurs in the text *)
FoundMention(e, event) ==
    LET needles == [k \in DOMAIN event.keywords |-> Lower(event.keywords[k])]
                   \o <<Lower(event.description)>>
        text == DisclosureText(e)
    IN  \E n \in DOMAIN needles : \E t \in DOMAIN text : Contains(text[t], needles[n])

(* a variant of the impact that is -30 whatever the severity *)
OmissionImpactFlat(severity) == 0 - 30

(* line 97 *)
OmissionImpact(severity) ==
    IF severity = "critical" THEN 0 - 30
    ELSE IF severity = "warning" THEN 0 - 15
    ELSE 0 - 5

(* lines 62-110: _check_omissions *)
RECURSIVE CheckOmissions(_, _, _, _)
CheckOmissions(e, evs, k, acc) ==
    IF k > Len(evs) THEN acc
    ELSE CheckOmissions(e, evs, k + 1,
            IF evs[k].event_type \in {"fine", "lawsuit", "violation"} /\ ~FoundMention(e, evs[k])
            THEN Append(acc, Contradiction("omission", evs[k].severity, evs[k].description,
                                           evs[k], OmissionImpact(evs[k].severity)))
            ELSE acc)

OmissionInit ==
    /\ IdlePipeline
    /\ IdleSearch
    /\ IdleAdapter
    /\ extract \in NarrativeInputs
    /\ validation = NotValidated
    /\ news_articles = <<>>
    /\ llm = <<>>
    /\ llm_calls = <<>>
    /\ events \in SeqsUpTo(ReportedEvents, MaxEvents)
    /\ total_events = 0
    /\ contradictions = <<>>
    /\ credibility_score = None
    /\ news_pc = "checking"
    /\ news_i = 0
    /\ news_j = 0
    /\ search_calls = <<>>
    /\ news_provider = "brave"

(* CrossValidator()._check_omissions(disclosure, events) *)
CheckOmissionsReturns ==
    /\ news_pc = "checking"
    /\ contradictions' = CheckOmissions(extract, events, 1, <<>>)
    /\ news_pc' = "checked"
    /\ UNCHANGED <<news_articles, llm, llm_calls, events, total_events,
                   credibility_score, news_i, news_j, search_calls, news_provider>>
    /\ UNCHANGED <<pipelineVars, searchVars, consistencyVars, adapterVars>>

OmissionNext == CheckOmissionsReturns

OmissionSpec == OmissionInit /\ [][OmissionNext]_vars

(* the texts of the record that a needle may occur in *)
FreeText ==
    {Lower(extract.risks[k].description) : k \in DOMAIN extract.risks}
    \cup {Lower(extract.targets[k].description) : k \in DOMAIN extract.targets}
    \cup {EmissionText(extract.emissions[k]) : k \in DOMAIN extract.emissions}

(* a fine, lawsuit or violation none of whose keywords, nor whose          *)
(* description, occurs in the record's free text                           *)
Omitted(event) ==
    /\ event.event_type \in {"fine", "lawsuit", "violation"}
    /\ \A t \in FreeText :
          /\ ~Contains(t, Lower(event.description))
          /\ \A k \in DOMAIN event.keywords : ~Contains(t, Lower(event.keywords[k]))

(* C18: the omission detector emits exactly one omission Contradiction for *)
(* each fine, lawsuit or violation event that the record's free text does  *)
(* not mention, and none for any other event; each carries the event's     *)
(* severity and an impact of -30, -15 or -5 for critical, warning or any   *)
(* other severity.                                                         *)
C18_OmissionPerUnmentionedEvent ==
    news_pc = "checked" =>
       LET expected == SelectSeq(events, Omitted)
       IN  /\ Len(contradictions) = Len(expected)
           /\ \A k \in DOMAIN contradictions :
                 /\ contradictions[k].event = expected[k]
                 /\ contradictions[k].contradiction_type = "omission"
                 /\ contradictions[k].severity = expected[k].severity
                 /\ contradictions[k].impact_on_credibility =
                       (CASE expected[k].severity = "critical" -> 0 - 30
                          [] expected[k].severity = "warning" -> 0 - 15
                          [] OTHER -> 0 - 5)

C18_Witness ==
    /\ news_pc = "checked"
    /\ Len(events) = 2
    /\ Len(contradictions) = 1
    /\ contradictions[1].event = events[2]
    /\ contradictions[1].severity = "high"
    /\ events[1].event_type = "fine"
    /\ extract.risks # <<>>

-----------------------------------------------------------------------------
(* NewsConsistencyValidator (cda/validation/news_consistency.py). Finding  *)
(* and ValidationResult come from cda/base.py; they are taken to accept    *)
(* the fields validate gives them.                                         *)

(* lines 158-165: _map_severity *)
MapSeverity(severity_str) ==
    IF severity_str \in {"critical", "warning", "info"} THEN severity_str ELSE "warning"

(* line 106: f"NEWS-{contradiction_type.value.upper()}" *)
NewsCode(contradiction_type) ==
    CASE contradiction_type = "omission" -> "NEWS-OMISSION"
      [] contradiction_type = "misrepresentation" -> "NEWS-MISREPRESENTATION"
      [] contradiction_type = "timing_mismatch" -> "NEWS-TIMING_MISMATCH"
      [] contradiction_type = "magnitude_mismatch" -> "NEWS-MAGNITUDE_MISMATCH"

(* lines 72-73: f"{report_year}-01-01" and f"{report_year}-12-31" *)
ReportStart(report_year) == [year |-> report_year, month |-> 1, day |-> 1]
ReportEnd(report_year) == [year |-> report_year, month |-> 12, day |-> 31]

(* lines 102-117: one Finding per contradiction; the message is            *)
(* "<type>: <evidence>"                                                    *)
(* Finding as news_consistency.py imports it from cda/base.py; that module *)
(* is not among the sources, so the record is the one the specification   *)
(* describes: validator name, code, severity and message (the optional    *)
(* field, recommendation and metadata are accepted and not modelled)      *)
BaseFinding(validator, code, severity, message) ==
    [validator |-> validator, code |-> code, severity |-> severity, message |-> message]

NewsFindings(cs) ==
    [k \in DOMAIN cs |->
        BaseFinding("news_consistency", NewsCode(cs[k].contradiction_type),
                MapSeverity(cs[k].severity),
                [prefix |-> cs[k].contradiction_type, text |-> cs[k].evidence_from_news])]

(* lines 119-131; the score is credibility_score / 100.0, in thousandths *)
NewsResult(arts, evs, cs, credibility) ==
    Returned("news_consistency", credibility * 10, NewsFindings(cs),
             [news_articles_found |-> Len(arts), events_extracted |-> Len(evs),
              contradictions_found |-> Len(cs)])

(* a variant of the except clause that scores 0.0 *)
NewsErrorResultZero(exception) ==
    Returned("news_consistency", 0,
             <<BaseFinding("news_consistency", "NEWS-ERROR", "warning",
                       [prefix |-> "News consistency validation failed", text |-> exception])>>,
             [news_articles_found |-> 0, events_extracted |-> 0, contradictions_found |-> 0])

(* lines 132-156: the except clause of validate *)
NewsErrorResult(exception) ==
    Returned("news_consistency", 1000,
             <<BaseFinding("news_consistency", "NEWS-ERROR", "warning",
                       [prefix |-> "News consistency validation failed", text |-> exception])>>,
             [news_articles_found |-> 0, events_extracted |-> 0, contradictions_found |-> 0])

FoundContradictions ==
    { Contradiction(t, sv, "Company fined for pollution", SampleEvent, 0 - 15) :
        t \in {"omission", "timing_mismatch"}, sv \in {"critical", "high"} }

NewsValidatorInit ==
    /\ IdlePipeline
    /\ IdleSearch
    /\ IdleAdapter
    /\ extract \in [class : {"DisclosureExtract"}, company_name : CompanyNames,
                    report_year : {2022, 2023}]
    /\ validation = NotValidated
    /\ news_provider \in {"brave", "google", "bing"}
    /\ news_articles = <<>>
    /\ llm = <<>>
    /\ llm_calls = <<>>
    /\ events = <<>>
    /\ total_events = 0
    /\ contradictions = <<>>
    /\ credibility_score = None
    /\ news_pc = "search"
    /\ news_i = 0
    /\ news_j = 0
    /\ search_calls = <<>>

(* lines 76-81: the call of data_source.search_news *)
SearchCall ==
    [company_name |-> extract.company_name,
     start_date |-> ReportStart(extract.report_year),
     end_date |-> ReportEnd(extract.report_year),
     preferred_source |-> news_provider]

(* lines 76-81: search_news returns articles *)
NewsSearchReturns ==
    /\ news_pc = "search"
    /\ search_calls' = Append(search_calls, SearchCall)
    /\ \E n \in 0..MaxNewsArticles : news_articles' = ArticlesNumbered(n)
    /\ news_pc' = "extract"
    /\ UNCHANGED <<llm, llm_calls, events, total_events, contradictions, credibility_score,
                   news_i, news_j, news_provider>>
    /\ UNCHANGED <<extract, validation, pipelineVars, searchVars, adapterVars>>

(* search_news raises; the except clause returns the error result *)
NewsSearchRaises ==
    /\ news_pc = "search"
    /\ search_calls' = Append(search_calls, SearchCall)
    /\ validation' = NewsErrorResult("search")
    /\ news_pc' = "recovered"
    /\ UNCHANGED <<news_articles, llm, llm_calls, events, total_events, contradictions,
                   credibility_score, news_i, news_j, news_provider>>
    /\ UNCHANGED <<extract, pipelineVars, searchVars, adapterVars>>

(* lines 84-87: extract_events returns events *)
NewsExtractReturns ==
    /\ news_pc = "extract"
    /\ events' \in SeqsUpTo({SampleEvent}, Len(news_articles))
    /\ news_pc' = "cross"
    /\ UNCHANGED <<news_articles, llm, llm_calls, total_events, contradictions,
                   credibility_score, news_i, news_j, search_calls, news_provider>>
    /\ UNCHANGED <<extract, validation, pipelineVars, searchVars, adapterVars>>

(* extract_events raises *)
NewsExtractRaises ==
    /\ news_pc = "extract"
    /\ validation' = NewsErrorResult("extract_events")
    /\ news_pc' = "recovered"
    /\ UNCHANGED <<news_articles, llm, llm_calls, events, total_events, contradictions,
                   credibility_score, news_i, news_j, search_calls, news_provider>>
    /\ UNCHANGED <<extract, pipelineVars, searchVars, adapterVars>>

(* lines 90-93: cross_validator.validate returns contradictions *)
NewsCrossReturns ==
    /\ news_pc = "cross"
    /\ contradictions' \in SeqsUpTo(FoundContradictions, MaxEvents)
    /\ news_pc' = "score"
    /\ UNCHANGED <<news_articles, llm, llm_calls, events, total_events,
                   credibility_score, news_i, news_j, search_calls, news_provider>>
    /\ UNCHANGED <<extract, validation, pipelineVars, searchVars, adapterVars>>

(* cross_validator.validate raises *)
NewsCrossRaises ==
    /\ news_pc = "cross"
    /\ validation' = NewsErrorResult("cross_validate")
    /\ news_pc' = "recovered"
    /\ UNCHANGED <<news_articles, llm, llm_calls, events, total_events, contradictions,
                   credibility_score, news_i, news_j, search_calls, news_provider>>
    /\ UNCHANGED <<extract, pipelineVars, searchVars, adapterVars>>

(* lines 96-131: credibility_scorer.score returns, the findings are built  *)
(* and the result is returned                                              *)
NewsScoreReturns ==
    /\ news_pc = "score"
    /\ total_events' = Len(events)
    /\ credibility_score' = CredibilityScore(contradictions, Len(events))
    /\ validation' = NewsResult(news_articles, events, contradictions,
                                CredibilityScore(contradictions, Len(events)))
    /\ news_pc' = "returned"
    /\ UNCHANGED <<news_articles, llm, llm_calls, events, contradictions,
                   news_i, news_j, search_calls, news_provider>>
    /\ UNCHANGED <<extract, pipelineVars, searchVars, adapterVars>>

(* credibility_scorer.score raises *)
NewsScoreRaises ==
    /\ news_pc = "score"
    /\ total_events' = Len(events)
    /\ validation' = NewsErrorResult("score")
    /\ news_pc' = "recovered"
    /\ UNCHANGED <<news_articles, llm, llm_calls, events, contradictions,
                   credibility_score, news_i, news_j, search_calls, news_provider>>
    /\ UNCHANGED <<extract, pipelineVars, searchVars, adapterVars>>

NewsValidatorNext ==
    \/ NewsSearchReturns
    \/ NewsSearchRaises
    \/ NewsExtractReturns
    \/ NewsExtractRaises
    \/ NewsCrossReturns
    \/ NewsCrossRaises
    \/ NewsScoreReturns
    \/ NewsScoreRaises

NewsValidatorSpec == NewsValidatorInit /\ [][NewsValidatorNext]_vars

(* C19: validate never raises; on success it returns a result named        *)
(* news_consistency whose score is credibility / 100 with one finding per  *)
(* Contradiction, its message naming the contradiction type, after a       *)
(* single search call with the report's calendar year and the configured   *)
(* preferred source; when a stage raises it returns score 1.0 and a single *)
(* warning finding NEWS-ERROR.                                             *)
C19_NewsValidateTotal ==
    /\ news_pc \in {"search", "extract", "cross", "score", "returned", "recovered"}
    /\ Len(search_calls) <= 1
    /\ news_pc \in {"returned", "recovered"} =>
          /\ validation.status = "returned"
          /\ validation.validator_name = "news_consistency"
          /\ Len(search_calls) = 1
          /\ search_calls[1].company_name = extract.company_name
          /\ search_calls[1].start_date = [year |-> extract.report_year, month |-> 1, day |-> 1]
          /\ search_calls[1].end_date = [year |-> extract.report_year, month |-> 12, day |-> 31]
          /\ search_calls[1].preferred_source = news_provider
    /\ news_pc = "returned" =>
          /\ validation.score = credibility_score * 10
          /\ Len(validation.findings) = Len(contradictions)
          /\ \A k \in DOMAIN contradictions :
                validation.findings[k].message.prefix = contradictions[k].contradiction_type
    /\ news_pc = "recovered" =>
          /\ validation.score = 1000
          /\ Len(validation.findings) = 1
          /\ validation.findings[1].code = "NEWS-ERROR"
          /\ validation.findings[1].severity = "warning"

C19_Witness ==
    /\ news_pc = "returned"
    /\ Len(contradictions) = 2
    /\ contradictions[1].severity = "critical"
    /\ contradictions[2].contradiction_type = "timing_mismatch"
    /\ validation.score = 700
    /\ Len(validation.findings) = 2
    /\ news_provider = "google"

-----------------------------------------------------------------------------
(* Two evaluations at once: ValidationPipeline.run followed by             *)
(* Scorer.aggregate, called for two records on the same pipeline, the same *)
(* Scorer and the same adapters, their steps interleaved.                  *)
(* Here pc, idx, results, exc, aggregated, cross_validate and extract hold *)
(* one value per evaluation; validators, adapters, weights and the loaded  *)
(* registry tables (adapter) are the shared objects.                       *)

Evaluations == {1, 2}

(* a record under evaluation, summarised by what the components do on it:  *)
(* the components that report a finding and the components that raise      *)
EvaluatedRecord(company_name, flagged, failing) ==
    [company_name |-> company_name, flagged |-> flagged, failing |-> failing]

EvaluatedRecords ==
    { EvaluatedRecord("Acme Corp", {}, {}),
      EvaluatedRecord("Initech", {"consistency", "sbti"}, {"risk_coverage"}),
      EvaluatedRecord("Globex", {"risk_coverage", "cdp"}, {"sbti"}) }

SharedValidatorPool == {"consistency", "risk_coverage"}

(* the adapters built with a reference table; _data is set once, in        *)
(* __init__ (cdp_adapter.py line 28, sbti_adapter.py line 28)              *)
LoadedTables == { {"sbti", "cdp"}, {"cdp"} }

(* validator.validate(extract): validate works on locals, so what it gives *)
(* depends on the validator and the record alone                           *)
ValidateOutcome(v, record) ==
    IF v \in record.failing THEN [outcome |-> "raised"]
    ELSE [outcome |-> "returned",
          result |-> IF v \in record.flagged
                     THEN ValidationResult(v, 0, <<Finding(v, "RULE-001", "critical", v)>>)
                     ELSE ValidationResult(v, 1000, <<>>)]

(* adapter.cross_validate(extract): reads self._data and the record *)
CrossValidateOutcome(a, record, tables) ==
    IF a \notin tables THEN [outcome |-> "no_data"]
    ELSE IF a \in record.failing THEN [outcome |-> "raised"]
    ELSE [outcome |-> "returned",
          result |-> IF a \in record.flagged
                     THEN ValidationResult(AdapterResultName(a), 700,
                                           <<Finding(a, "XV-001", "critical", a)>>)
                     ELSE ValidationResult(AdapterResultName(a), 1000, <<>>)]

(* a variant of run that keeps its list on the pipeline object *)
ResultsOfPipeline(e) == 1

(* pipeline.py line 75: results = [] is a local of the call, one list per  *)
(* evaluation                                                              *)
ResultsOf(e) == e

Started(e) == pc[e] # "phase1" \/ idx[e] > 1
Ended(e) == pc[e] \in {"aggregated", "raised"}
Overlaps(e) == \E o \in Evaluations \ {e} : Started(o) /\ ~Ended(o)

ConcurrentInit ==
    /\ validators \in SeqsUpTo(SharedValidatorPool, MaxValidators)
    /\ adapters \in SeqsUpTo(AdapterPool, MaxAdapters)
    /\ cross_validate \in {[e \in Evaluations |-> TRUE], [e \in Evaluations |-> e = 1]}
    /\ weights = ScorerWeights(<<>>)
    /\ pc = [e \in Evaluations |-> "phase1"]
    /\ idx = [e \in Evaluations |-> 1]
    /\ results = [e \in Evaluations |-> <<>>]
    /\ invoked = {}
    /\ exc = [e \in Evaluations |-> "none"]
    /\ aggregated = [e \in Evaluations |-> NoAggregate]
    /\ \E first, second \in EvaluatedRecords :
          /\ first.company_name # second.company_name
          /\ extract = [e \in Evaluations |-> IF e = 1 THEN first ELSE second]
    /\ validation = <<>>
    /\ adapter \in LoadedTables
    /\ IdleSearch
    /\ IdleNews

(* what every step of an evaluation leaves alone: the shared objects *)
SharedUnchanged ==
    /\ UNCHANGED <<validators, adapters, cross_validate, weights, extract, validation, adapter>>
    /\ UNCHANGED <<searchVars, newsVars>>

(* the evaluations that took a step while another one was under way *)
NoteStep(e) == invoked' = IF Overlaps(e) THEN invoked \cup {e} ELSE invoked

(* lines 78-98: one turn of the loop over self.validators *)
EvaluationValidates(e) ==
    /\ pc[e] = "phase1"
    /\ idx[e] <= Len(validators)
    /\ LET v == validators[idx[e]]
           out == ValidateOutcome(v, extract[e])
           appended == IF out.outcome = "returned" THEN out.result ELSE ErrorResult(v)
       IN  results' = [results EXCEPT ![ResultsOf(e)] = Append(@, appended)]
    /\ idx' = [idx EXCEPT ![e] = @ + 1]
    /\ NoteStep(e)
    /\ UNCHANGED <<pc, exc, aggregated>>
    /\ SharedUnchanged

(* line 101 *)
EvaluationEntersPhase2(e) ==
    /\ pc[e] = "phase1"
    /\ idx[e] > Len(validators)
    /\ pc' = [pc EXCEPT ![e] = IF cross_validate[e] /\ adapters # <<>> THEN "phase2" ELSE "returned"]
    /\ idx' = [idx EXCEPT ![e] = 1]
    /\ NoteStep(e)
    /\ UNCHANGED <<results, exc, aggregated>>
    /\ SharedUnchanged

(* lines 102-132: one turn of the loop over self.adapters; a handler whose *)
(* ValidationResult(score=None) is rejected raises out of run              *)
EvaluationCrossValidates(e) ==
    /\ pc[e] = "phase2"
    /\ idx[e] <= Len(adapters)
    /\ LET a == adapters[idx[e]]
           out == CrossValidateOutcome(a, extract[e], adapter)
           score == IF out.outcome = "no_data" THEN NoDataScore ELSE AdapterErrorScore
       IN  IF out.outcome = "returned"
           THEN /\ results' = [results EXCEPT ![ResultsOf(e)] = Append(@, out.result)]
                /\ idx' = [idx EXCEPT ![e] = @ + 1]
                /\ UNCHANGED <<pc, exc>>
           ELSE IF ValidationResultAccepts(score)
           THEN /\ results' = [results EXCEPT ![ResultsOf(e)] =
                                 Append(@, ValidationResult(AdapterResultName(a), score,
                                           IF out.outcome = "no_data" THEN NoDataFindings(a)
                                           ELSE AdapterErrorFindings(a)))]
                /\ idx' = [idx EXCEPT ![e] = @ + 1]
                /\ UNCHANGED <<pc, exc>>
           ELSE /\ pc' = [pc EXCEPT ![e] = "raised"]
                /\ exc' = [exc EXCEPT ![e] = "ValidationError"]
                /\ UNCHANGED <<results, idx>>
    /\ NoteStep(e)
    /\ UNCHANGED aggregated
    /\ SharedUnchanged

(* line 134 *)
EvaluationReturns(e) ==
    /\ pc[e] = "phase2"
    /\ idx[e] > Len(adapters)
    /\ pc' = [pc EXCEPT ![e] = "returned"]
    /\ NoteStep(e)
    /\ UNCHANGED <<idx, results, exc, aggregated>>
    /\ SharedUnchanged

(* scorer.aggregate(extract, results) on the list run returned *)
EvaluationAggregates(e) ==
    /\ pc[e] = "returned"
    /\ aggregated' = [aggregated EXCEPT ![e] = Aggregate(results[ResultsOf(e)], weights)]
    /\ pc' = [pc EXCEPT ![e] = "aggregated"]
    /\ NoteStep(e)
    /\ UNCHANGED <<idx, results, exc>>
    /\ SharedUnchanged

ConcurrentNext ==
    \E e \in Evaluations :
        \/ EvaluationValidates(e)
        \/ EvaluationEntersPhase2(e)
        \/ EvaluationCrossValidates(e)
        \/ EvaluationReturns(e)
        \/ EvaluationAggregates(e)

ConcurrentSpec == ConcurrentInit /\ [][ConcurrentNext]_vars

-----------------------------------------------------------------------------
(* Properties of two evaluations at once *)

(* the list run builds for a record when nothing else runs: phase 1 *)
RECURSIVE AlonePhase1(_, _, _)
AlonePhase1(record, k, acc) ==
    IF k > Len(validators) THEN acc
    ELSE LET out == ValidateOutcome(validators[k], record)
         IN  AlonePhase1(record, k + 1,
                Append(acc, IF out.outcome = "returned" THEN out.result
                            ELSE ErrorResult(validators[k])))

(* ... and phase 2, which ends at the first adapter without a result *)
RECURSIVE AlonePhase2(_, _, _)
AlonePhase2(record, k, acc) ==
    IF k > Len(adapters) THEN [results |-> acc, exc |-> "none"]
    ELSE LET out == CrossValidateOutcome(adapters[k], record, adapter)
         IN  IF out.outcome = "returned"
             THEN AlonePhase2(record, k + 1, Append(acc, out.result))
             ELSE [results |-> acc, exc |-> "ValidationError"]

RunAlone(e) ==
    LET phase1 == AlonePhase1(extract[e], 1, <<>>)
    IN  IF cross_validate[e] /\ adapters # <<>>
        THEN AlonePhase2(extract[e], 1, phase1)
        ELSE [results |-> phase1, exc |-> "none"]

IsPrefix(s, t) == Len(s) <= Len(t) /\ \A k \in DOMAIN s : s[k] = t[k]

(* C21: two evaluations of different records that share the validators,    *)
(* the adapters with their tables and the Scorer, interleaved at any       *)
(* point, each build the list of results and the AggregatedResult they     *)
(* build when run alone: at every moment an evaluation's list is the part  *)
(* of its own list built so far, it ends as it ends alone, and its         *)
(* aggregate is the aggregate of its own list.                             *)
C21_EvaluationsIndependent ==
    \A e \in Evaluations :
        LET alone == RunAlone(e)
            mine == results[ResultsOf(e)]
        IN  /\ IsPrefix(mine, alone.results)
            /\ pc[e] \in {"returned", "aggregated", "raised"} =>
                  /\ mine = alone.results
                  /\ exc[e] = alone.exc
            /\ pc[e] = "raised" <=> exc[e] # "none"
            /\ pc[e] = "aggregated" =>
                  aggregated[e] = Aggregate(alone.results, weights)

C21_Witness ==
    /\ invoked = Evaluations
    /\ \A e \in Evaluations : pc[e] = "aggregated" /\ Len(results[e]) = 4
    /\ results[1] # results[2]
    /\ aggregated[1].overall # aggregated[2].overall

-----------------------------------------------------------------------------
(* ValidationPipeline.run over the components themselves: a pipeline of    *)
(* one rule validator, the news cross-referencer or one registry adapter,  *)
(* run on a record of that component's inputs. The scores keep the form    *)
(* the component computes them in; in the list they are Optional[float]    *)
(* values: null, or the exact quotient num / den.                          *)

NullScore == [null |-> TRUE, num |-> 0, den |-> 1]

FloatScore(num, den) == [null |-> FALSE, num |-> num, den |-> den]

(* the score of a component's result as an Optional[float]: the rule       *)
(* validators' fractions as they are, thousandths over 1000                *)
ScoreOf(component, score) ==
    IF component \in {"consistency", "quantification", "completeness", "risk_coverage"}
    THEN FloatScore(score.num, score.den)
    ELSE IF score = None THEN NullScore ELSE FloatScore(score, 1000)

(* the ValidationResult appended to run's list *)
Produced(component, result) ==
    ValidationResult(result.validator_name, ScoreOf(component, result.score), result.findings)

(* records for the consistency rules, with at most one emission entry and  *)
(* one risk entry                                                          *)
RunConsistencyInputs ==
    [class : {"DisclosureExtract"},
     targets : SeqsUpTo(TargetChoices, MaxTargets),
     emissions : SeqsUpTo(EmissionChoices, 1),
     risks : SeqsUpTo(RiskChoices, 1),
     governance : GovernanceChoices,
     source_references : ReferenceChoices]

(* adapters whose table has at most one row *)
RunAdapters == {a \in Adapters : a.data.class = "NoneType" \/ Len(a.data.rows) <= 1}

(* news_consistency.py lines 60-156: validate, given what the search, the  *)
(* extraction and the cross validation produce, or that one of them fails  *)
NewsValidate(cs, n_events, fails) ==
    IF fails THEN NewsErrorResult("search")
    ELSE NewsResult([k \in 1..n_events |-> NewsArticle("Test Article", "https://example.com/article")],
                    [k \in 1..n_events |-> SampleEvent], cs,
                    CredibilityScore(cs, n_events))

(* validator.validate(extract) for the validator registered under `name` *)
Validate(name) ==
    CASE name = "consistency" -> ConsistencyValidate(extract)
      [] name = "quantification" -> QuantificationValidate(extract)
      [] name = "completeness" -> CompletenessValidate(extract)
      [] name = "risk_coverage" -> RiskCoverageValidate(extract)
      [] name = "news_consistency" ->
            NewsValidate(contradictions, total_events, news_pc = "fails")

RunInit ==
    /\ cross_validate = TRUE
    /\ weights = ScorerWeights(<<>>)
    /\ pc = "phase1"
    /\ idx = 1
    /\ results = <<>>
    /\ invoked = <<>>
    /\ exc = "none"
    /\ aggregated = NoAggregate
    /\ validation = NotValidated
    /\ IdleSearch
    /\ news_articles = <<>>
    /\ llm = <<>>
    /\ llm_calls = <<>>
    /\ events = <<>>
    /\ credibility_score = None
    /\ news_i = 0
    /\ news_j = 0
    /\ search_calls = <<>>
    /\ news_provider = "brave"
    /\ \/ /\ validators = <<"consistency">>
          /\ adapters = <<>>
          /\ extract \in RunConsistencyInputs
          /\ IdleAdapter
          /\ contradictions = <<>> /\ total_events = 0 /\ news_pc = "idle"
       \/ /\ validators = <<"quantification">>
          /\ adapters = <<>>
          /\ extract \in QuantificationInputs
          /\ IdleAdapter
          /\ contradictions = <<>> /\ total_events = 0 /\ news_pc = "idle"
       \/ /\ validators \in {<<"completeness">>, <<"risk_coverage">>}
          /\ adapters = <<>>
          /\ extract \in CoverageInputs
          /\ IdleAdapter
          /\ contradictions = <<>> /\ total_events = 0 /\ news_pc = "idle"
       \/ /\ validators = <<"news_consistency">>
          /\ adapters = <<>>
          /\ extract = <<>>
          /\ IdleAdapter
          /\ contradictions \in SeqsUpTo(ScoredContradictions, MaxContradictions)
          /\ total_events \in 0..MaxTotalEvents
          /\ news_pc \in {"answers", "fails"}
       \/ /\ validators = <<>>
          /\ adapter \in RunAdapters
          /\ adapters = <<adapter.name>>
          /\ extract \in RegistryInputs
          /\ contradictions = <<>> /\ total_events = 0 /\ news_pc = "idle"

RunFrame ==
    /\ UNCHANGED <<validators, adapters, cross_validate, weights, invoked, aggregated>>
    /\ UNCHANGED <<searchVars, consistencyVars, adapterVars, newsVars>>

(* lines 78-98: one turn of the loop over self.validators *)
RunValidates ==
    /\ pc = "phase1"
    /\ idx <= Len(validators)
    /\ LET v == validators[idx]
           out == Validate(v)
       IN  results' = Append(results,
                         IF out.status = "returned" THEN Produced(v, out)
                         ELSE Produced("pipeline", ErrorResult(v)))
    /\ idx' = idx + 1
    /\ UNCHANGED <<pc, exc>>
    /\ RunFrame

(* line 101 *)
RunEntersPhase2 ==
    /\ pc = "phase1"
    /\ idx > Len(validators)
    /\ pc' = IF RunsPhase2 THEN "phase2" ELSE "returned"
    /\ idx' = 1
    /\ UNCHANGED <<results, exc>>
    /\ RunFrame

(* lines 102-132: one turn of the loop over self.adapters *)
RunCrossValidates ==
    /\ pc = "phase2"
    /\ idx <= Len(adapters)
    /\ LET a == adapters[idx]
           out == CrossValidate(adapter, extract)
           score == IF out.exception = "DataNotAvailableError" THEN NoDataScore
                    ELSE AdapterErrorScore
       IN  IF out.status = "returned"
           THEN /\ results' = Append(results, Produced(a, out))
                /\ idx' = idx + 1
                /\ UNCHANGED <<pc, exc>>
           ELSE IF ValidationResultAccepts(score)
           THEN /\ results' = Append(results,
                                 Produced(a, ValidationResult(AdapterResultName(a), score,
                                     IF out.exception = "DataNotAvailableError"
                                     THEN NoDataFindings(a) ELSE AdapterErrorFindings(a))))
                /\ idx' = idx + 1
                /\ UNCHANGED <<pc, exc>>
           ELSE /\ pc' = "raised"
                /\ exc' = "ValidationError"
                /\ UNCHANGED <<results, idx>>
    /\ RunFrame

(* line 134 *)
RunReturns ==
    /\ pc = "phase2"
    /\ idx > Len(adapters)
    /\ pc' = "returned"
    /\ UNCHANGED <<idx, results, exc>>
    /\ RunFrame

RunNext ==
    \/ RunValidates
    \/ RunEntersPhase2
    \/ RunCrossValidates
    \/ RunReturns

RunSpec == RunInit /\ [][RunNext]_vars

-----------------------------------------------------------------------------
(* Properties of run over the components *)

WithinUnit(score) ==
    score.null \/ (score.den > 0 /\ 0 <= score.num /\ score.num <= score.den)

(* C22: every ValidationResult in run's list, from a rule validator, a     *)
(* registry adapter, the news cross-referencer or built by run for a       *)
(* failure, has a score that is null or lies in [0,1].                     *)
C22_ScoresWithinUnit ==
    \A k \in DOMAIN results : WithinUnit(results[k].score)

C22_Witness ==
    /\ pc = "returned"
    /\ Len(results) = 1
    /\ results[1].validator_name = "news_consistency"
    /\ Len(contradictions) = 4
    /\ \A k \in DOMAIN contradictions : contradictions[k].severity = "critical"
    /\ results[1].score = FloatScore(0, 1000)


-----------------------------------------------------------------------------
(* CrossValidator.validate (cda/validation/cross_validator.py): the four   *)
(* detectors on one record and one event list                              *)

(* schema.py DisclosureExtract, with risk descriptions that make positive  *)
(* claims and that quote amounts of money                                  *)
CrossInputs ==
    [class : {"DisclosureExtract"},
     report_year : {2023},
     risks : SeqsUpTo([description : {"No significant environmental risks",
                                      "EPA Fine for the Ohio plant",
                                      "Carbon neutral operations powered by clean energy",
                                      "Set aside $5 million and $2 million for remediation"}],
                      MaxRisks),
     targets : SeqsUpTo([description : {"Net Zero by 2050"}], 1),
     emissions : SeqsUpTo([scope : {"scope_1"}, value : {100}], 1)]

(* the events the detectors are given; financial_impact in dollars *)
CrossEvents ==
    LET article == NewsArticle("Test Corp Fined for Pollution", "https://example.com/fine")
    IN  { EnvironmentalEvent("fine", "Company fined for pollution", "2023-06-15", "critical",
                             20000000, article, <<"pollution">>, 90),
          EnvironmentalEvent("fine", "Company fined for pollution", "2022-03-01", "high",
                             4000000, article, <<"EPA">>, 90),
          EnvironmentalEvent("lawsuit", "Company fined for pollution", "unknown", "warning",
                             None, article, <<"EPA">>, 90),
          EnvironmentalEvent("accident", "Company fined for pollution", "2023-06-15", "low",
                             None, article, <<"pollution">>, 90) }

(* lines 133-141 *)
positive_claims_patterns ==
    <<"carbon.*neutral", "zero.*emission", "climate.*positive", "sustainable.*practice",
      "environmentally.*friendly", "green.*initiative", "clean.*energy">>

(* line 155: re.search(pattern, disclosure_text), for the texts of the     *)
(* model; no pattern matches across two of the joined texts                *)
Search(pattern, text) ==
    \E t \in DOMAIN text :
        /\ text[t] = "carbon neutral operations powered by clean energy"
        /\ pattern \in {"carbon.*neutral", "clean.*energy"}

(* lines 143-151 *)
NegativeEventIndicators(event_type) ==
    CASE event_type = "fine" -> <<"fine", "penalty", "violation">>
      [] event_type = "lawsuit" -> <<"lawsuit", "legal", "court">>
      [] event_type = "violation" -> <<"violation", "breach", "non-compliance">>
      [] event_type = "accident" -> <<"accident", "spill", "leak", "incident">>
      [] OTHER -> <<>>

(* line 160 *)
MisrepresentationImpact(severity) ==
    IF severity = "critical" THEN 0 - 30
    ELSE IF severity = "warning" THEN 0 - 15
    ELSE 0 - 5

(* lines 154-171: the contradictions of one event: one for each pattern    *)
(* that the text matches, when an indicator occurs in the description (the *)
(* break of line 171 leaves the loop over the indicators only)             *)
MisrepresentationsOf(e, event) ==
    LET indicators == NegativeEventIndicators(event.event_type)
        indicated == \E i \in DOMAIN indicators :
                        Contains(Lower(event.description), indicators[i])
        Matched(pattern) == Search(pattern, DisclosureText(e))
        matched == SelectSeq(positive_claims_patterns, Matched)
    IN  IF indicated
        THEN [k \in DOMAIN matched |->
                Contradiction("misrepresentation", event.severity, event.description, event,
                              MisrepresentationImpact(event.severity))]
        ELSE <<>>

(* lines 112-173: _check_misrepresentations *)
RECURSIVE CheckMisrepresentations(_, _, _, _)
CheckMisrepresentations(e, evs, k, acc) ==
    IF k > Len(evs) THEN acc
    ELSE CheckMisrepresentations(e, evs, k + 1, acc \o MisrepresentationsOf(e, evs[k]))

(* line 188: int(event.date.split('-')[0]); None when int raises ValueError *)
EventYear(date) ==
    CASE date = "2023-06-15" -> 2023
      [] date = "2022-03-01" -> 2022
      [] OTHER -> None

(* line 213 *)
TimingImpact(severity) ==
    IF severity \in {"critical", "warning"} THEN 0 - 15 ELSE 0 - 5

(* lines 175-229: _check_timing_mismatches *)
RECURSIVE CheckTimingMismatches(_, _, _, _)
CheckTimingMismatches(e, evs, k, acc) ==
    IF k > Len(evs) THEN acc
    ELSE CheckTimingMismatches(e, evs, k + 1,
            IF /\ EventYear(evs[k].date) # None
               /\ EventYear(evs[k].date) = e.report_year
               /\ ~FoundMention(e, evs[k])
            THEN Append(acc, Contradiction("timing_mismatch", evs[k].severity,
                                           evs[k].description, evs[k],
                                           TimingImpact(evs[k].severity)))
            ELSE acc)

(* line 252: the figures re.findall finds after a dollar sign in one       *)
(* description                                                             *)
FinancialMatches(description) ==
    IF description = "Set aside $5 million and $2 million for remediation"
    THEN <<5, 2>> ELSE <<>>

(* lines 259-262: the multiplier the text of the risks and targets calls   *)
(* for                                                                     *)
Multiplier(e) ==
    IF \E k \in DOMAIN e.risks :
          e.risks[k].description = "Set aside $5 million and $2 million for remediation"
    THEN 1000000 ELSE 1

RECURSIVE AllFinancialMatches(_, _)
AllFinancialMatches(descriptions, k) ==
    IF k > Len(descriptions) THEN <<>>
    ELSE FinancialMatches(descriptions[k]) \o AllFinancialMatches(descriptions, k + 1)

(* line 265: the two amounts differ by more than half of the larger *)
Discrepancy(financial_impact, reported_amount) ==
    LET diff == IF financial_impact >= reported_amount
                THEN financial_impact - reported_amount
                ELSE reported_amount - financial_impact
    IN  reported_amount > 0 /\ 2 * diff > Max(financial_impact, reported_amount)

(* line 266 *)
MagnitudeImpact(severity) ==
    IF severity \in {"critical", "warning"} THEN 0 - 20 ELSE 0 - 10

(* lines 240-279: the contradictions of one event: one for each figure of  *)
(* the text that is far from the event's financial impact                  *)
MagnitudeMismatchesOf(e, event) ==
    LET financial_matches ==
            AllFinancialMatches([k \in DOMAIN e.risks |-> e.risks[k].description]
                                \o [k \in DOMAIN e.targets |-> e.targets[k].description], 1)
        Far(match) == Discrepancy(event.financial_impact, match * Multiplier(e))
        far == SelectSeq(financial_matches, Far)
    IN  IF event.financial_impact # None /\ event.financial_impact # 0
        THEN [k \in DOMAIN far |->
                Contradiction("magnitude_mismatch", event.severity, event.description, event,
                              MagnitudeImpact(event.severity))]
        ELSE <<>>

(* lines 231-281: _check_magnitude_mismatches *)
RECURSIVE CheckMagnitudeMismatches(_, _, _, _)
CheckMagnitudeMismatches(e, evs, k, acc) ==
    IF k > Len(evs) THEN acc
    ELSE CheckMagnitudeMismatches(e, evs, k + 1, acc \o MagnitudeMismatchesOf(e, evs[k]))

(* lines 31-60: CrossValidator.validate *)
CrossValidatorValidate(e, evs) ==
    CheckOmissions(e, evs, 1, <<>>)
    \o CheckMisrepresentations(e, evs, 1, <<>>)
    \o CheckTimingMismatches(e, evs, 1, <<>>)
    \o CheckMagnitudeMismatches(e, evs, 1, <<>>)

CrossValidatorInit ==
    /\ IdlePipeline
    /\ IdleSearch
    /\ IdleAdapter
    /\ extract \in CrossInputs
    /\ validation = NotValidated
    /\ news_articles = <<>>
    /\ llm = <<>>
    /\ llm_calls = <<>>
    /\ events \in SeqsUpTo(CrossEvents, MaxEvents)
    /\ total_events = 0
    /\ contradictions = <<>>
    /\ credibility_score = None
    /\ news_pc = "validating"
    /\ news_i = 0
    /\ news_j = 0
    /\ search_calls = <<>>
    /\ news_provider = "brave"

(* CrossValidator().validate(disclosure, events) *)
CrossValidatorValidates ==
    /\ news_pc = "validating"
    /\ contradictions' = CrossValidatorValidate(extract, events)
    /\ news_pc' = "validated"
    /\ UNCHANGED <<news_articles, llm, llm_calls, events, total_events,
                   credibility_score, news_i, news_j, search_calls, news_provider>>
    /\ UNCHANGED <<pipelineVars, searchVars, consistencyVars, adapterVars>>

CrossValidatorNext == CrossValidatorValidates

CrossValidatorSpec == CrossValidatorInit /\ [][CrossValidatorNext]_vars

(* the place of a contradiction type in the order of the detectors *)
DetectorRank(contradiction_type) ==
    CASE contradiction_type = "omission" -> 1
      [] contradiction_type = "misrepresentation" -> 2
      [] contradiction_type = "timing_mismatch" -> 3
      [] contradiction_type = "magnitude_mismatch" -> 4

(* the number of entries of a sequence that are equal to x *)
Occurrences(s, x) == Cardinality({k \in DOMAIN s : s[k] = x})

(* the number of contradictions of a type about an event *)
EmittedFor(contradiction_type, event) ==
    Cardinality({k \in DOMAIN contradictions :
                    /\ contradictions[k].contradiction_type = contradiction_type
                    /\ contradictions[k].event = event})

(* C27: validate returns the outputs of the omission, misrepresentation,   *)
(* timing and magnitude detectors in that order, and each detector emits   *)
(* at most one Contradiction per event, so that one event gives rise to at *)
(* most four Contradictions, one per contradiction type.                   *)
C27_OnePerDetectorPerEvent ==
    news_pc = "validated" =>
       /\ \A i \in DOMAIN contradictions : \A j \in DOMAIN contradictions :
             i <= j => DetectorRank(contradictions[i].contradiction_type)
                          <= DetectorRank(contradictions[j].contradiction_type)
       /\ \A k \in DOMAIN events :
             /\ \A t \in {"omission", "misrepresentation", "timing_mismatch",
                          "magnitude_mismatch"} :
                   EmittedFor(t, events[k]) <= Occurrences(events, events[k])
             /\ Cardinality({c \in DOMAIN contradictions : contradictions[c].event = events[k]})
                   <= 4 * Occurrences(events, events[k])


-----------------------------------------------------------------------------
(* The news chain of NewsConsistencyValidator.validate on its own: the     *)
(* events of EventExtractor.extract_events are given to                    *)
(* CrossValidator.validate, and the contradictions to                      *)
(* CredibilityScorer.score                                                 *)

(* answers of the language model that differ in event type and severity *)
SeverityAnswers ==
    { Json(RequiredFields, et, "str", "str", "2023-06-15", sv, "number", 90) :
        et \in {"fine", "other"}, sv \in {"critical", "high", "medium", "low", "warning"} }
    \cup { Json(RequiredFields, "fine", "str", "str", "last week", "critical", "number", 90) }

(* event_extractor.py lines 60-72 and 82-85: the events extract_events     *)
(* returns for the articles from k on, in the order of the articles        *)
RECURSIVE ExtractEvents(_, _, _)
ExtractEvents(arts, answers, k) ==
    IF k > Len(arts) THEN <<>>
    ELSE LET outcome == ExtractSingleEvent(arts[k], answers[k])
         IN  (IF outcome.status = "event" /\ outcome.event.confidence >= 50
              THEN <<outcome.event>> ELSE <<>>)
             \o ExtractEvents(arts, answers, k + 1)

NewsChainInit ==
    /\ IdlePipeline
    /\ IdleSearch
    /\ IdleAdapter
    /\ extract \in NarrativeInputs
    /\ validation = NotValidated
    /\ llm \in SeqsUpTo(SeverityAnswers, MaxNewsArticles)
    /\ news_articles = ArticlesNumbered(Len(llm))
    /\ llm_calls = <<>>
    /\ events = <<>>
    /\ total_events = 0
    /\ contradictions = <<>>
    /\ credibility_score = None
    /\ news_pc = "extract"
    /\ news_i = 0
    /\ news_j = 0
    /\ search_calls = <<>>
    /\ news_provider = "brave"

(* news_consistency.py line 87: event_extractor.extract_events(articles) *)
ChainExtracts ==
    /\ news_pc = "extract"
    /\ events' = ExtractEvents(news_articles, llm, 1)
    /\ llm_calls' = [k \in DOMAIN news_articles |-> news_articles[k].title]
    /\ news_pc' = "cross"
    /\ UNCHANGED <<news_articles, llm, total_events, contradictions, credibility_score,
                   news_i, news_j, search_calls, news_provider>>
    /\ UNCHANGED <<pipelineVars, searchVars, consistencyVars, adapterVars>>

(* news_consistency.py lines 90-93: cross_validator.validate(disclosure,   *)
(* events)                                                                 *)
ChainCrossValidates ==
    /\ news_pc = "cross"
    /\ contradictions' = CrossValidatorValidate(extract, events)
    /\ news_pc' = "score"
    /\ UNCHANGED <<news_articles, llm, llm_calls, events, total_events,
                   credibility_score, news_i, news_j, search_calls, news_provider>>
    /\ UNCHANGED <<pipelineVars, searchVars, consistencyVars, adapterVars>>

(* news_consistency.py lines 96-99: credibility_scorer.score(              *)
(* contradictions, len(events))                                            *)
ChainScores ==
    /\ news_pc = "score"
    /\ total_events' = Len(events)
    /\ credibility_score' = CredibilityScore(contradictions, Len(events))
    /\ news_pc' = "scored"
    /\ UNCHANGED <<news_articles, llm, llm_calls, events, contradictions,
                   news_i, news_j, search_calls, news_provider>>
    /\ UNCHANGED <<pipelineVars, searchVars, consistencyVars, adapterVars>>

NewsChainNext ==
    \/ ChainExtracts
    \/ ChainCrossValidates
    \/ ChainScores

NewsChainSpec == NewsChainInit /\ [][NewsChainNext]_vars

(* C28: every Contradiction the cross validator emits for events of the    *)
(* Event Extractor has a severity in {critical, warning, info}, so every   *)
(* Contradiction lowers the credibility score by 30, 15 or 5: a news run   *)
(* with at least one Contradiction never ends with credibility score 100.  *)
C28_ContradictionLowersCredibility ==
    /\ \A k \in DOMAIN contradictions :
          contradictions[k].severity \in {"critical", "warning", "info"}
    /\ (news_pc = "scored" /\ contradictions # <<>>) => credibility_score < 100


-----------------------------------------------------------------------------
(* The reported score and the reported grade of Scorer.aggregate           *)

(* the grade the thresholds give to a reported score, in tenths of a point *)
GradeOfReported(overall_score) ==
    IF overall_score >= 900 THEN "A"
    ELSE IF overall_score >= 800 THEN "B"
    ELSE IF overall_score >= 700 THEN "C"
    ELSE IF overall_score >= 600 THEN "D"
    ELSE "F"

(* C29: in every AggregatedResult the reported overall_score (rounded to   *)
(* one decimal) and the reported grade agree with the thresholds: A iff    *)
(* overall_score >= 90, B iff 80 <= overall_score < 90, C iff 70 <=        *)
(* overall_score < 80, D iff 60 <= overall_score < 70, F iff below 60.     *)
C29_GradeMatchesReportedScore ==
    pc = "aggregated" => aggregated.grade = GradeOfReported(aggregated.overall_score)


-----------------------------------------------------------------------------
(* A result without a weight in Scorer.aggregate                           *)

(* the results without the one at position i *)
Without(rs, i) == SubSeq(rs, 1, i - 1) \o SubSeq(rs, i + 1, Len(rs))

(* the result at position i is a scored validator result whose name has no *)
(* weight                                                                  *)
Unweighted(i) ==
    /\ ~StartsWithAdapter(results[i].validator_name)
    /\ results[i].validator_name \notin DOMAIN weights
    /\ results[i].score # None

(* C30: a non-adapter result whose validator name is not a key of the      *)
(* weight map leaves overall_score, grade and the adapter penalty as they  *)
(* are without it, whatever its score and findings; it only adds its entry *)
(* to dimension_scores, and the weakest dimension is the one named without *)
(* it or the added one.                                                    *)
C30_UnweightedResultOnlyAddsDimension ==
    pc = "aggregated" =>
       \A i \in DOMAIN results :
          Unweighted(i) =>
             LET name == results[i].validator_name
                 without == Aggregate(Without(results, i), weights)
             IN  /\ aggregated.overall_score = without.overall_score
                 /\ aggregated.grade = without.grade
                 /\ aggregated.penalty_applied = without.penalty_applied
                 /\ aggregated.adapters_used = without.adapters_used
                 /\ DOMAIN aggregated.dimension_scores
                       = DOMAIN without.dimension_scores \cup {name}
                 /\ aggregated.dimension_scores[name] = results[i].score
                 /\ \A d \in DOMAIN without.dimension_scores :
                       aggregated.dimension_scores[d] = without.dimension_scores[d]
                 /\ aggregated.weakest \in {without.weakest, name}

C30_Witness ==
    /\ pc = "aggregated"
    /\ \E i \in DOMAIN results :
          /\ Unweighted(i)
          /\ results[i].validator_name = "news_consistency"
          /\ results[i].score = 0
          /\ results[i].findings # <<>>
    /\ aggregated.weakest = "news_consistency"
    /\ aggregated.grade = "A"
    /\ aggregated.penalty_applied > 0

====
